---- MODULE Spec2Model ----
(***************************************************************************)
(* Machine segment tracker: the segment time model.                        *)
(*                                                                         *)
(* Representation.                                                         *)
(*   - a time-of-day string "HH:MM:SS" is the tuple <<h, m, s>>; the       *)
(*     blank string is <<>>, "08:00" (no seconds) is <<8, 0>>, and         *)
(*     "25:00:00" is <<25, 0, 0>>;                                         *)
(*   - a date string "YYYY-MM-DD" is its day number (1, 2, ...), the       *)
(*     blank string is 0;                                                  *)
(*   - a machine name is the sequence of its characters;                   *)
(*   - an id is a positive number, 0 stands for "no id" (undefined);       *)
(*   - an instant (moment / Date) is a number of seconds, local time       *)
(*     without daylight-saving transitions.                                *)
(***************************************************************************)
EXTENDS Integers, Sequences, FiniteSets, TLC

VARIABLES
    tCall,      \* time utilities: the function last called
    tArgs,      \* its arguments [date, startTime, endTime]
    tResult,    \* its outcome [threw, value]
    rows,       \* client: the existing segments the table holds (an array)
    cCall,      \* client validation: the function last called
    cArgs,      \* its arguments
    cResult,    \* its result
    db,         \* server: the stored Segment documents
    status,     \* server: the status of the last response (0: none yet)
    segments,   \* useSegments: the ids of the hook's `segments` state
    row,        \* useSegments: the form row handed to handleSave
    sCall,      \* aggregation: the function or endpoint last called
    sArgs,      \* its input (a number of minutes, a batch, a query)
    sResult     \* its outcome

tvars == <<tCall, tArgs, tResult>>
cvars == <<rows, cCall, cArgs, cResult>>
avars == <<db, status, segments, row>>
svars == <<sCall, sArgs, sResult>>
vars == <<tvars, cvars, avars, svars>>

----------------------------------------------------------------------------
(* Bounds and input sets *)

\* seconds in one calendar day: moment's add(1, 'day')
SecondsPerDay == 86400

\* well-formed times of day used as inputs
GoodTimes ==
    { <<0, 0, 0>>, <<0, 15, 0>>, <<8, 0, 0>>, <<8, 0, 30>>, <<8, 1, 0>>,
      <<9, 0, 0>>, <<9, 30, 0>>, <<23, 15, 0>>, <<23, 30, 0>>, <<23, 59, 59>> }

\* malformed or blank time strings: "", "08:00", "25:00:00", "12:60:00"
BadTimes == { <<>>, <<8, 0>>, <<25, 0, 0>>, <<12, 60, 0>> }

TimeInputs == GoodTimes \cup BadTimes

\* calendar dates (day numbers)
Dates == {1, 2}

\* the most rows the client's table holds
MaxRows == 2

\* (startTime, endTime) of the rows the table holds: segments the server stored,
\* the last one crossing midnight
RowPairs ==
    { <<<<8, 0, 0>>, <<9, 0, 0>>>>, <<<<9, 0, 0>>, <<10, 0, 0>>>>,
      <<<<23, 0, 0>>, <<1, 0, 0>>>> }

\* (startTime, endTime) of the candidates entered in the form
CandPairs ==
    { <<<<8, 0, 0>>, <<9, 0, 0>>>>, <<<<9, 0, 0>>, <<10, 0, 0>>>>,
      <<<<8, 0, 0>>, <<10, 0, 0>>>>, <<<<8, 30, 0>>, <<9, 30, 0>>>>,
      <<<<23, 30, 0>>, <<23, 45, 0>>>>, <<<<23, 0, 0>>, <<1, 0, 0>>>>,
      <<<<10, 0, 0>>, <<9, 0, 0>>>>, <<<<9, 0, 0>>, <<9, 0, 0>>>> }

MachineNames == { <<"M", "1">>, <<"M", "2">> }

\* the day the form is filled in
Todays == {2}

\* the most documents the collection holds
MaxSegments == 2

\* request bodies sent to the segment API: times "08:00:00" and "23:00:00",
\* names "m1", " M2" and "", types "uptime" and (not in the enum) "Uptime"
ApiTimes == { <<8, 0, 0>>, <<23, 0, 0>> }
ApiNames == { <<"m", "1">>, <<" ", "M", "2">>, <<>> }
ApiTypes == {"uptime", "Uptime"}

\* machine names entered in a form row: every string of at most MaxNameLen
\* characters over this alphabet
MaxNameLen == 3
NameAlphabet == {"m", "M", "7", " "}

----------------------------------------------------------------------------
(* Time arithmetic (backend utils/timeUtils and the Segment model) *)

\* /^([01]\d|2[0-3]):([0-5]\d):([0-5]\d)$/
isValidTimeFormat(time) ==
    /\ Len(time) = 3
    /\ time[1] \in 0..23
    /\ time[2] \in 0..59
    /\ time[3] \in 0..59

\* moment(`${date}T${time}`): the instant, in seconds
Moment(date, time) ==
    date * SecondsPerDay + time[1] * 3600 + time[2] * 60 + time[3]

\* a.diff(b, 'minutes'): whole minutes, truncated toward zero
DiffMinutes(a, b) ==
    IF a >= b THEN (a - b) \div 60 ELSE 0 - ((b - a) \div 60)

Threw == [threw |-> TRUE, value |-> 0]
Returned(v) == [threw |-> FALSE, value |-> v]

\* (mutation of RolledEnd: the next-day case is not handled)
NoRolledEnd(start, end) == end

\* the end instant with "end time is on the next day" handled
RolledEnd(start, end) ==
    IF end < start THEN end + SecondsPerDay ELSE end

calculateDuration(startTime, endTime, date) ==
    IF startTime = <<>> \/ endTime = <<>> THEN Threw
    ELSE IF ~isValidTimeFormat(startTime) \/ ~isValidTimeFormat(endTime) THEN Threw
    ELSE LET start == Moment(date, startTime)
             end   == Moment(date, endTime)
         IN  Returned(DiffMinutes(RolledEnd(start, end), start))

\* the Segment model's durationMinutes virtual
durationMinutes(seg) ==
    LET start == Moment(seg.date, seg.startTime)
        end   == Moment(seg.date, seg.endTime)
        endR  == IF end < start THEN end + SecondsPerDay ELSE end
    IN  DiffMinutes(endR, start)

validateTimeRange(startTime, endTime, date) ==
    IF startTime = <<>> \/ endTime = <<>> THEN Threw
    ELSE IF ~isValidTimeFormat(startTime) \/ ~isValidTimeFormat(endTime) THEN Threw
    ELSE LET start == Moment(date, startTime)
             end   == Moment(date, endTime)
             endAdjusted == IF end < start THEN end + SecondsPerDay ELSE end
         IN  IF endAdjusted <= start THEN Threw ELSE Returned(1)

\* the time check of segmentSchema.pre('save'): TRUE when next() is called
\* without an error
preSaveHourRule(start, end, startTime, endTime) ==
    end < start /\ endTime[1] < startTime[1]

preSaveTimeOk(date, startTime, endTime) ==
    LET start == Moment(date, startTime)
        end0  == Moment(date, endTime)
        end   == IF preSaveHourRule(start, end0, startTime, endTime)
                 THEN end0 + SecondsPerDay ELSE end0
    IN  ~(end <= start)

----------------------------------------------------------------------------
(* Client-side validation (frontend utils/validation) *)

\* /^([0-1]?[0-9]|2[0-3]):([0-5][0-9]):([0-5][0-9])$/ after the !timeStr test
\* (times are written with two-digit hours throughout the model)
isValidTimeFormatClient(timeStr) ==
    /\ timeStr # <<>>
    /\ Len(timeStr) = 3
    /\ timeStr[1] \in 0..23
    /\ timeStr[2] \in 0..59
    /\ timeStr[3] \in 0..59

\* new Date(`${date}T${time}`): an instant, or an Invalid Date (NaN)
JsDate(date, time) ==
    IF date >= 1 /\ isValidTimeFormatClient(time)
    THEN [nan |-> FALSE, t |-> date * SecondsPerDay + time[1] * 3600 + time[2] * 60 + time[3]]
    ELSE [nan |-> TRUE, t |-> 0]

\* comparisons of Date objects: every comparison with NaN is false
DateLT(a, b) == ~a.nan /\ ~b.nan /\ a.t < b.t
DateLE(a, b) == ~a.nan /\ ~b.nan /\ a.t <= b.t
DateGT(a, b) == ~a.nan /\ ~b.nan /\ a.t > b.t
DateGE(a, b) == ~a.nan /\ ~b.nan /\ a.t >= b.t

\* (mutation of EndAfterStart: an end equal to the start is let through)
EndNotBeforeStart(start, end) == DateGE(end, start)

\* end > start
EndAfterStart(start, end) == DateGT(end, start)

isEndTimeAfterStartTime(startTime, endTime) ==
    IF startTime = <<>> \/ endTime = <<>> THEN TRUE
    ELSE IF ~isValidTimeFormatClient(startTime) \/ ~isValidTimeFormatClient(endTime)
         THEN FALSE
    ELSE EndAfterStart(JsDate(1, startTime), JsDate(1, endTime))

\* the body of the some() callback: new segment against one existing segment
OverlapsExisting(newStart, newEnd, existingStart, existingEnd) ==
    \/ (DateGE(newStart, existingStart) /\ DateLT(newStart, existingEnd))
    \/ (DateGT(newEnd, existingStart) /\ DateLE(newEnd, existingEnd))
    \/ (DateLE(newStart, existingStart) /\ DateGE(newEnd, existingEnd))

\* the filter callback: same machine, same date, not the segment itself
SameMachineAndDate(segment, newSegment) ==
    /\ segment.machineName = newSegment.machineName
    /\ segment.date = newSegment.date
    /\ (newSegment.id = 0 \/ segment.id # newSegment.id)

hasOverlappingSegments(newSegment, existingSegments) ==
    IF Len(existingSegments) = 0 THEN FALSE
    ELSE LET machineSegments ==
                 { i \in 1..Len(existingSegments) :
                       SameMachineAndDate(existingSegments[i], newSegment) }
             newStart == JsDate(newSegment.date, newSegment.startTime)
             newEnd   == JsDate(newSegment.date, newSegment.endTime)
         IN  IF machineSegments = {} THEN FALSE
             ELSE \E i \in machineSegments :
                      OverlapsExisting(
                          newStart, newEnd,
                          JsDate(existingSegments[i].date, existingSegments[i].startTime),
                          JsDate(existingSegments[i].date, existingSegments[i].endTime))

\* isRequired on each kind of field: not undefined and not blank after trim
isRequiredDate(value) == value # 0
isRequiredTime(value) == value # <<>>
isRequiredName(value) == \E i \in 1..Len(value) : value[i] # " "
isRequiredType(value) == value \notin {"", " "}

\* /^[a-zA-Z0-9_-]+$/
NameChars == {"m", "M", "a", "1", "2", "7", "_", "-"}
isValidMachineName(name) ==
    /\ Len(name) > 0
    /\ \A i \in 1..Len(name) : name[i] \in NameChars

isValidSegmentType(type) ==
    /\ type # ""
    /\ type \in {"Uptime", "Downtime", "Idle"}

\* Math.ceil(|date - today| / one day) <= rangeInDays, today being some time
\* after midnight of day `today`; an unparsable date gives NaN, which is not <=
isDateInRange(date, today, rangeInDays) ==
    /\ date >= 1
    /\ (IF date > today THEN date - today ELSE today - date + 1) <= rangeInDays

\* the errors object: "" stands for a key that is not set
NoErrors ==
    [date |-> "", startTime |-> "", endTime |-> "", machineName |-> "",
     segmentType |-> "", general |-> ""]

\* a variant of Object.keys that overlooks the general key
ObjectKeysOfFields(errors) ==
    { k \in DOMAIN errors \ {"general"} : errors[k] # "" }

\* Object.keys(errors): the keys that have been set
ObjectKeys(errors) == { k \in DOMAIN errors : errors[k] # "" }

validateSegmentForm(formData, existingSegments, today) ==
    LET e1 == IF ~isRequiredDate(formData.date)
              THEN [NoErrors EXCEPT !.date = "Date is required"] ELSE NoErrors
        e2 == IF ~isRequiredTime(formData.startTime)
              THEN [e1 EXCEPT !.startTime = "Start time is required"]
              ELSE IF ~isValidTimeFormatClient(formData.startTime)
              THEN [e1 EXCEPT !.startTime = "Invalid time format (HH:mm:ss)"]
              ELSE e1
        e3 == IF ~isRequiredTime(formData.endTime)
              THEN [e2 EXCEPT !.endTime = "End time is required"]
              ELSE IF ~isValidTimeFormatClient(formData.endTime)
              THEN [e2 EXCEPT !.endTime = "Invalid time format (HH:mm:ss)"]
              ELSE e2
        e4 == IF ~isRequiredName(formData.machineName)
              THEN [e3 EXCEPT !.machineName = "Machine name is required"]
              ELSE IF ~isValidMachineName(formData.machineName)
              THEN [e3 EXCEPT !.machineName = "Invalid machine name format"]
              ELSE e3
        e5 == IF ~isRequiredType(formData.segmentType)
              THEN [e4 EXCEPT !.segmentType = "Segment type is required"]
              ELSE IF ~isValidSegmentType(formData.segmentType)
              THEN [e4 EXCEPT !.segmentType = "Invalid segment type"]
              ELSE e4
        e6 == IF /\ e5.startTime = ""
                 /\ e5.endTime = ""
                 /\ ~isEndTimeAfterStartTime(formData.startTime, formData.endTime)
              THEN [e5 EXCEPT !.endTime = "End time must be after start time"]
              ELSE e5
        e7 == IF /\ e6.date = ""
                 /\ e6.startTime = ""
                 /\ e6.endTime = ""
                 /\ e6.machineName = ""
                 /\ hasOverlappingSegments(formData, existingSegments)
              THEN [e6 EXCEPT !.general =
                       "This segment overlaps with an existing segment for this machine"]
              ELSE e6
        e8 == IF e7.date = "" /\ ~isDateInRange(formData.date, today, 365)
              THEN [e7 EXCEPT !.date = "Date must be within 1 year from today"]
              ELSE e7
    IN  [isValid |-> (Cardinality(ObjectKeys(e8)) = 0), errors |-> e8]

----------------------------------------------------------------------------
(* Server: the Segment model and the segment controller *)

RECURSIVE TrimLeft(_)
TrimLeft(str) ==
    IF str # <<>> /\ Head(str) = " " THEN TrimLeft(Tail(str)) ELSE str

RECURSIVE TrimRight(_)
TrimRight(str) ==
    IF str # <<>> /\ str[Len(str)] = " "
    THEN TrimRight(SubSeq(str, 1, Len(str) - 1)) ELSE str

\* String.prototype.trim / the schema's trim: true / the validator's .trim()
Trim(str) == TrimRight(TrimLeft(str))

\* toLowerCase() of one character
LowerChar(c) == IF c = "M" THEN "m" ELSE IF c = "A" THEN "a" ELSE c

\* name.toLowerCase().startsWith('m')
StartsWithM(name) == name # <<>> /\ LowerChar(Head(name)) = "m"

\* (mutation of UpperM: the rest of the name is dropped)
UpperMOnly(name) == <<"M">>

\* 'M' + name.substring(1)
UpperM(name) == <<"M">> \o Tail(name)

\* the pre-save hook's "Format machine name to always start with uppercase 'M'"
formatMachineName(name) ==
    IF name # <<>>
    THEN (IF StartsWithM(name) THEN UpperM(name) ELSE name)
    ELSE name

\* useSegments.handleSave: formattedMachineName
formatRowMachineName(name) ==
    IF StartsWithM(name) THEN <<"M">> \o Tail(name) ELSE name

SegmentTypes == {"uptime", "downtime", "idle", "select"}

\* the body validators of validateCreateSegment; TRUE when validateRequest calls next()
validateCreateSegment(body) ==
    /\ body.date >= 1
    /\ isValidTimeFormat(body.startTime)
    /\ isValidTimeFormat(body.endTime)
    /\ body.machineName # <<>>
    /\ body.segmentType # "" /\ body.segmentType \in SegmentTypes

\* the body validators of validateUpdateSegment: each field is optional
validateUpdateSegment(body) ==
    /\ "date" \in DOMAIN body => body.date >= 1
    /\ "startTime" \in DOMAIN body => isValidTimeFormat(body.startTime)
    /\ "endTime" \in DOMAIN body => isValidTimeFormat(body.endTime)
    /\ "segmentType" \in DOMAIN body => body.segmentType \in SegmentTypes

\* the schema's setters: machineName and segmentType are trimmed when set
Cast(doc) == [doc EXCEPT !.machineName = Trim(@)]

\* the schema's validators, run by save() before the pre-save hook
schemaValid(doc) ==
    /\ doc.date >= 1
    /\ isValidTimeFormat(doc.startTime)
    /\ isValidTimeFormat(doc.endTime)
    /\ doc.machineName # <<>>
    /\ doc.segmentType \in SegmentTypes

\* document.save(): validation, then the pre-save hook; the status the
\* controller answers with and the document as it is written
save(doc, okStatus) ==
    IF ~schemaValid(doc) THEN [status |-> 400, doc |-> doc]
    ELSE IF ~preSaveTimeOk(doc.date, doc.startTime, doc.endTime)
         THEN [status |-> 500, doc |-> doc]
    ELSE [status |-> okStatus,
          doc |-> [doc EXCEPT !.machineName = formatMachineName(@)]]

\* (a variant of Assign that puts the date back to the first day when the
\* body does not name it)
AssignResettingDate(doc, body) ==
    [k \in DOMAIN doc |->
        IF k \in DOMAIN body THEN body[k] ELSE IF k = "date" THEN 1 ELSE doc[k]]

\* Object.keys(req.body).forEach((key) => { segment[key] = req.body[key]; })
Assign(doc, body) ==
    [k \in DOMAIN doc |-> IF k \in DOMAIN body THEN body[k] ELSE doc[k]]

\* POST /api/segments with the storage assigning _id
createSegment(body, newId) ==
    IF ~validateCreateSegment(body) THEN [status |-> 400, db |-> db]
    ELSE LET doc == Cast([id |-> newId, date |-> body.date,
                          startTime |-> body.startTime, endTime |-> body.endTime,
                          machineName |-> body.machineName,
                          segmentType |-> body.segmentType])
             res == save(doc, 201)
         IN  [status |-> res.status,
              db |-> IF res.status = 201 THEN db \cup {res.doc} ELSE db]

\* PUT /api/segments/:id
updateSegment(id, body) ==
    IF ~validateUpdateSegment(body) THEN [status |-> 400, db |-> db]
    ELSE IF ~\E seg \in db : seg.id = id THEN [status |-> 404, db |-> db]
    ELSE LET segment == CHOOSE seg \in db : seg.id = id
             res == save(Cast(Assign(segment, body)), 200)
         IN  [status |-> res.status,
              db |-> IF res.status = 200
                     THEN (db \ {segment}) \cup {res.doc} ELSE db]

\* DELETE /api/segments/:id
deleteSegment(id) ==
    IF ~\E seg \in db : seg.id = id THEN [status |-> 404, db |-> db]
    ELSE [status |-> 200, db |-> { seg \in db : seg.id # id }]

----------------------------------------------------------------------------
(* The parts of the state a specification leaves alone *)

ClientIdle ==
    /\ rows = <<>>
    /\ cCall = "none"
    /\ cArgs = <<>>
    /\ cResult = FALSE

NoRow ==
    [id |-> 0, date |-> 0, startTime |-> <<>>, endTime |-> <<>>,
     machineName |-> <<>>, segmentType |-> ""]

ApiIdle ==
    /\ db = {}
    /\ status = 0
    /\ segments = {}
    /\ row = NoRow

StatsIdle ==
    /\ sCall = "none"
    /\ sArgs = 0
    /\ sResult = 0

TimeIdle ==
    /\ tCall = "none"
    /\ tArgs = [date |-> 1, startTime |-> <<>>, endTime |-> <<>>]
    /\ tResult = [threw |-> FALSE, value |-> 0]

----------------------------------------------------------------------------
(* Specification of the time utilities: each step is one call *)

TimeArgs == [date : Dates, startTime : TimeInputs, endTime : TimeInputs]
GoodTimeArgs == [date : Dates, startTime : GoodTimes, endTime : GoodTimes]

\* the arguments are drawn first; each behaviour then makes one call on them
TimeInit ==
    /\ tCall = "none"
    /\ tArgs \in TimeArgs
    /\ tResult = Returned(0)
    /\ ClientIdle
    /\ ApiIdle
    /\ StatsIdle

CallCalculateDuration ==
    /\ tCall = "none"
    /\ tCall' = "calculateDuration"
    /\ tResult' = calculateDuration(tArgs.startTime, tArgs.endTime, tArgs.date)
    /\ UNCHANGED <<tArgs, cvars, avars, svars>>

\* the virtual is read off a document that passed the schema's format validators
CallDurationMinutes ==
    /\ tCall = "none"
    /\ tArgs \in GoodTimeArgs
    /\ tCall' = "durationMinutes"
    /\ tResult' = Returned(durationMinutes(tArgs))
    /\ UNCHANGED <<tArgs, cvars, avars, svars>>

CallValidateTimeRange ==
    /\ tCall = "none"
    /\ tCall' = "validateTimeRange"
    /\ tResult' = validateTimeRange(tArgs.startTime, tArgs.endTime, tArgs.date)
    /\ UNCHANGED <<tArgs, cvars, avars, svars>>

\* the hook runs after the schema's format validators
CallPreSave ==
    /\ tCall = "none"
    /\ tArgs \in GoodTimeArgs
    /\ tCall' = "preSave"
    /\ tResult' = IF preSaveTimeOk(tArgs.date, tArgs.startTime, tArgs.endTime)
                  THEN Returned(1) ELSE Threw
    /\ UNCHANGED <<tArgs, cvars, avars, svars>>

TimeNext ==
    \/ CallCalculateDuration
    \/ CallDurationMinutes
    \/ CallValidateTimeRange
    \/ CallPreSave

SpecTime == TimeInit /\ [][TimeNext]_vars

----------------------------------------------------------------------------
(* Specification of the client-side validation: the table's rows and the     *)
(* form's data are drawn first, each behaviour then makes one call           *)

RowBodies ==
    { [date |-> d, startTime |-> p[1], endTime |-> p[2], machineName |-> n,
       segmentType |-> "Uptime"] : d \in Dates, p \in RowPairs, n \in MachineNames }

\* row i of the table carries id i
WithId(body, i) ==
    [id |-> i, date |-> body.date, startTime |-> body.startTime,
     endTime |-> body.endTime, machineName |-> body.machineName,
     segmentType |-> body.segmentType]

RowArrays ==
    UNION { { [i \in 1..n |-> WithId(f[i], i)] : f \in [1..n -> RowBodies] }
            : n \in 0..MaxRows }

Candidates ==
    { [id |-> i, date |-> d, startTime |-> p[1], endTime |-> p[2],
       machineName |-> n, segmentType |-> "Uptime"] :
          i \in 0..MaxRows, d \in Dates, p \in CandPairs, n \in MachineNames }

ClientInit ==
    /\ rows \in RowArrays
    /\ cCall = "none"
    /\ cArgs \in [formData : Candidates, today : Todays]
    /\ cResult = FALSE
    /\ TimeIdle
    /\ ApiIdle
    /\ StatsIdle

CallIsEndTimeAfterStartTime ==
    /\ cCall = "none"
    /\ cCall' = "isEndTimeAfterStartTime"
    /\ cResult' = isEndTimeAfterStartTime(cArgs.formData.startTime, cArgs.formData.endTime)
    /\ UNCHANGED <<rows, cArgs, tvars, avars, svars>>

CallHasOverlappingSegments ==
    /\ cCall = "none"
    /\ cCall' = "hasOverlappingSegments"
    /\ cResult' = hasOverlappingSegments(cArgs.formData, rows)
    /\ UNCHANGED <<rows, cArgs, tvars, avars, svars>>

CallValidateSegmentForm ==
    /\ cCall = "none"
    /\ cCall' = "validateSegmentForm"
    /\ cResult' = validateSegmentForm(cArgs.formData, rows, cArgs.today)
    /\ UNCHANGED <<rows, cArgs, tvars, avars, svars>>

\* rows.filter((row) => row.id !== editingId)
OtherRows(editingId) == SelectSeq(rows, LAMBDA r : r.id # editingId)

\* DataTable.handleEditSave: the row being edited is validated against the
\* other rows and replaces the stored row when the validation passes
HandleEditSave ==
    /\ cCall = "none"
    /\ \E i \in 1..Len(rows) : rows[i].id = cArgs.formData.id
    /\ LET editingId == cArgs.formData.id
           res == validateSegmentForm(cArgs.formData, OtherRows(editingId), cArgs.today)
       IN  /\ cCall' = "handleEditSave"
           /\ cResult' = res
           /\ rows' = IF res.isValid
                      THEN [i \in 1..Len(rows) |->
                               IF rows[i].id = editingId THEN cArgs.formData ELSE rows[i]]
                      ELSE rows
    /\ UNCHANGED <<cArgs, tvars, avars, svars>>

ClientNext ==
    \/ CallIsEndTimeAfterStartTime
    \/ CallHasOverlappingSegments
    \/ CallValidateSegmentForm
    \/ HandleEditSave

SpecClient == ClientInit /\ [][ClientNext]_vars

----------------------------------------------------------------------------
(* Specification of the form validation on arbitrary field values: blank,    *)
(* malformed and well-formed fields against a table of at most one row       *)

FormTimes ==
    { <<>>, <<8, 0>>, <<25, 0, 0>>, <<8, 0, 0>>, <<9, 0, 0>>, <<9, 0, 1>>,
      <<23, 59, 58>>, <<23, 59, 59>> }

\* "", today's neighbours, and a date more than a year away
FormDates == {0, 1, 2, 500}

\* "M1", "m1", "", " ", "M 1"
FormNames == { <<"M", "1">>, <<"m", "1">>, <<>>, <<" ">>, <<"M", " ", "1">> }

FormTypes == {"Uptime", "uptime", "select", "", "Bogus"}

FormInputs ==
    [id : {0, 1}, date : FormDates, startTime : FormTimes, endTime : FormTimes,
     machineName : FormNames, segmentType : FormTypes]

FormRows ==
    { <<>> } \cup
    { <<[id |-> 1, date |-> 1, startTime |-> <<8, 0, 0>>, endTime |-> e,
         machineName |-> <<"M", "1">>, segmentType |-> "Uptime"]>> :
         e \in { <<9, 0, 0>>, <<23, 59, 59>> } }

FormInit ==
    /\ rows \in FormRows
    /\ cCall = "none"
    /\ cArgs \in [formData : FormInputs, today : Todays]
    /\ cResult = FALSE
    /\ TimeIdle
    /\ ApiIdle
    /\ StatsIdle

SpecForm == FormInit /\ [][ClientNext]_vars

----------------------------------------------------------------------------
(* Specification of the segment API: any sequence of create, update and     *)
(* delete requests                                                           *)

CreateBodies ==
    [date : Dates, startTime : ApiTimes, endTime : ApiTimes,
     machineName : ApiNames, segmentType : ApiTypes]

\* a PUT body names any subset of the fields
UpdateBodies ==
    UNION { [date : IF "date" \in ks THEN Dates ELSE {0},
             startTime : IF "startTime" \in ks THEN ApiTimes ELSE {<<>>},
             endTime : IF "endTime" \in ks THEN ApiTimes ELSE {<<>>},
             machineName : IF "machineName" \in ks THEN ApiNames ELSE {<<>>},
             segmentType : IF "segmentType" \in ks THEN ApiTypes ELSE {""},
             keys : {ks}]
            : ks \in SUBSET {"date", "startTime", "endTime", "machineName", "segmentType"} }

\* the body as the object the request carries: only its keys
BodyOf(b) == [k \in b.keys |-> b[k]]

SegmentIds == 1..MaxSegments

ApiInit ==
    /\ db = {}
    /\ status = 0
    /\ segments = {}
    /\ row = NoRow
    /\ TimeIdle
    /\ ClientIdle
    /\ StatsIdle

CreateSegment ==
    \E body \in CreateBodies :
        \E newId \in SegmentIds :
            /\ \A seg \in db : seg.id # newId
            /\ LET res == createSegment(body, newId)
               IN  db' = res.db /\ status' = res.status
            /\ UNCHANGED <<segments, row, tvars, cvars, svars>>

UpdateSegment ==
    \E id \in SegmentIds :
        \E b \in UpdateBodies :
            /\ LET res == updateSegment(id, BodyOf(b))
               IN  db' = res.db /\ status' = res.status
            /\ UNCHANGED <<segments, row, tvars, cvars, svars>>

DeleteSegment ==
    \E id \in SegmentIds :
        /\ LET res == deleteSegment(id)
           IN  db' = res.db /\ status' = res.status
        /\ UNCHANGED <<segments, row, tvars, cvars, svars>>

ApiNext ==
    \/ CreateSegment
    \/ UpdateSegment
    \/ DeleteSegment

SpecApi == ApiInit /\ [][ApiNext]_vars

----------------------------------------------------------------------------
(* Specification of one save of a form row: through useSegments.handleSave,  *)
(* or sent as it is to POST / PUT. The row, the collection and the hook's    *)
(* `segments` state are drawn first.                                         *)

RowNames == UNION { [1..n -> NameAlphabet] : n \in 0..MaxNameLen }

SaveRows ==
    [id : {0, 1}, date : {1}, startTime : ApiTimes, endTime : ApiTimes,
     machineName : RowNames, segmentType : {"uptime"}]

\* a document saved earlier
StoredDoc ==
    [id |-> 1, date |-> 1, startTime |-> <<8, 0, 0>>, endTime |-> <<23, 0, 0>>,
     machineName |-> <<"M", "1">>, segmentType |-> "uptime"]

SaveInit ==
    /\ db \in { {}, {StoredDoc} }
    /\ status = 0
    /\ segments \in { {}, {1} }
    /\ row \in SaveRows
    /\ TimeIdle
    /\ ClientIdle
    /\ StatsIdle

\* the request body made of a row: its fields other than id
RowBody(r) ==
    [date |-> r.date, startTime |-> r.startTime, endTime |-> r.endTime,
     machineName |-> r.machineName, segmentType |-> r.segmentType]

\* useSegments.handleSave(row): the name is formatted, then the row is sent as
\* an update when its id is among `segments` and as a create otherwise; a
\* failed request is caught and leaves `segments` as it was
HandleSave ==
    /\ status = 0
    /\ LET segmentData == [row EXCEPT !.machineName = formatRowMachineName(@)]
       IN  IF row.id \in segments
           THEN LET res == updateSegment(row.id, RowBody(segmentData))
                IN  /\ db' = res.db
                    /\ status' = res.status
                    /\ segments' = segments
           ELSE \E newId \in SegmentIds :
                    /\ \A seg \in db : seg.id # newId
                    /\ LET res == createSegment(RowBody(segmentData), newId)
                       IN  /\ db' = res.db
                           /\ status' = res.status
                           /\ segments' = IF res.status = 201
                                          THEN segments \cup {newId} ELSE segments
    /\ UNCHANGED <<row, tvars, cvars, svars>>

\* POST /api/segments with the row as it is
PostRow ==
    /\ status = 0
    /\ \E newId \in SegmentIds :
           /\ \A seg \in db : seg.id # newId
           /\ LET res == createSegment(RowBody(row), newId)
              IN  db' = res.db /\ status' = res.status
    /\ UNCHANGED <<segments, row, tvars, cvars, svars>>

\* PUT /api/segments/:id with the row as it is
PutRow ==
    /\ status = 0
    /\ row.id # 0
    /\ LET res == updateSegment(row.id, RowBody(row))
       IN  db' = res.db /\ status' = res.status
    /\ UNCHANGED <<segments, row, tvars, cvars, svars>>

SaveNext ==
    \/ HandleSave
    \/ PostRow
    \/ PutRow

SpecSave == SaveInit /\ [][SaveNext]_vars

----------------------------------------------------------------------------
(* Claims about the time utilities (checked under SpecTime) *)

\* seconds since midnight of a well-formed time of day
SecOfDay(time) == time[1] * 3600 + time[2] * 60 + time[3]

\* C6: for every date and every pair of well-formed times, calculateDuration and
\* the durationMinutes virtual return (end - start) in whole minutes when end is
\* not before start and (end + 24h - start) in whole minutes when it is; the
\* result lies in 0..1439, and 23:30:00 to 00:15:00 gives 45.
C6_DurationRollover ==
    (tCall \in {"calculateDuration", "durationMinutes"} /\ tArgs \in GoodTimeArgs) =>
        LET s == SecOfDay(tArgs.startTime)
            e == SecOfDay(tArgs.endTime)
            expected == IF e >= s THEN (e - s) \div 60
                        ELSE (e + 24 * 3600 - s) \div 60
        IN  /\ ~tResult.threw
            /\ tResult.value = expected
            /\ tResult.value \in 0..1439
            /\ (tArgs.startTime = <<23, 30, 0>> /\ tArgs.endTime = <<0, 15, 0>>
                    => tResult.value = 45)

C6_Witness ==
    /\ tCall = "calculateDuration"
    /\ tArgs.startTime = <<23, 30, 0>>
    /\ tArgs.endTime = <<0, 15, 0>>
    /\ tResult = [threw |-> FALSE, value |-> 45]

\* C7: every segment accepted by validateTimeRange or by the pre-save hook has
\* a durationMinutes of at least 1.
C7_AcceptedLastsAMinute ==
    (tCall \in {"validateTimeRange", "preSave"} /\ ~tResult.threw) =>
        /\ calculateDuration(tArgs.startTime, tArgs.endTime, tArgs.date).value >= 1
        /\ durationMinutes(tArgs) >= 1

\* C8: the pre-save hook accepts every segment whose endTime is numerically
\* earlier than its startTime, and accepts exactly the (startTime, endTime)
\* pairs that validateTimeRange accepts.
C8_HookResolvesRollover ==
    tCall = "preSave" =>
        /\ (SecOfDay(tArgs.endTime) < SecOfDay(tArgs.startTime) => ~tResult.threw)
        /\ (~tResult.threw <=>
              ~validateTimeRange(tArgs.startTime, tArgs.endTime, tArgs.date).threw)

----------------------------------------------------------------------------
(* Claims about the client-side overlap check (checked under SpecClient) *)

\* the absolute interval of a segment, the end resolved with the rollover rule
AbsStart(seg) == Moment(seg.date, seg.startTime)
AbsEnd(seg) ==
    LET start == Moment(seg.date, seg.startTime)
        end   == Moment(seg.date, seg.endTime)
    IN  IF end < start THEN end + SecondsPerDay ELSE end

\* strict intersection of the two absolute intervals
Intersects(a, b) == AbsStart(a) < AbsEnd(b) /\ AbsStart(b) < AbsEnd(a)

CrossesMidnight(seg) == SecOfDay(seg.endTime) < SecOfDay(seg.startTime)

\* the rows of the candidate's machine and date, other than the candidate itself
RowsInScope(cand) ==
    { i \in 1..Len(rows) :
          /\ rows[i].machineName = cand.machineName
          /\ rows[i].date = cand.date
          /\ rows[i].id # cand.id }

WithoutId(seg) == [seg EXCEPT !.id = 0]

\* C2: for a candidate that passes the single-field checks, validateSegmentForm
\* reports isValid = FALSE with errors.general exactly when some existing segment
\* of the same machine and date (and another id) intersects the candidate's
\* interval.
C2_GeneralErrorIffIntersects ==
    (cCall = "validateSegmentForm" /\ cArgs.formData.startTime # cArgs.formData.endTime) =>
        ((~cResult.isValid /\ cResult.errors.general # "")
            <=> \E i \in RowsInScope(cArgs.formData) : Intersects(cArgs.formData, rows[i]))

\* C3: for every pair of same-machine, same-date segments the overlap predicate
\* is strict interval intersection, in either argument order.
C3_StrictIntersection ==
    (cCall = "hasOverlappingSegments" /\ cArgs.formData.startTime # cArgs.formData.endTime) =>
        \A i \in RowsInScope(cArgs.formData) :
            LET a == WithoutId(cArgs.formData)
                b == WithoutId(rows[i])
            IN  /\ hasOverlappingSegments(a, <<b>>) = Intersects(a, b)
                /\ hasOverlappingSegments(b, <<a>>) = Intersects(a, b)

\* C4: a candidate that intersects an existing midnight-crossing segment of the
\* same machine and date is reported as overlapping.
C4_RolloverInOverlapCheck ==
    cCall = "hasOverlappingSegments" =>
        \A i \in RowsInScope(cArgs.formData) :
            (CrossesMidnight(rows[i]) /\ Intersects(cArgs.formData, rows[i]))
                => cResult = TRUE

\* C5: with an id on the candidate, the row of that id is left out and every
\* other row of the machine is still checked: a stored row re-validated
\* unchanged (and intersecting no other row) reports no overlap, and a row moved
\* onto another row of its machine and date is reported, so that handleEditSave
\* does not store it.
C5_SelfExcludedOthersChecked ==
    /\ (cCall = "hasOverlappingSegments" /\ cArgs.formData.id # 0) =>
          LET cand == cArgs.formData
              hit  == \E i \in RowsInScope(cand) : Intersects(cand, rows[i])
          IN  /\ ((\E i \in 1..Len(rows) : rows[i] = cand) /\ ~hit) => cResult = FALSE
              /\ hit => cResult = TRUE
    /\ (cCall = "handleEditSave" /\ cResult.isValid) =>
          \A i \in RowsInScope(cArgs.formData) : ~Intersects(cArgs.formData, rows[i])

----------------------------------------------------------------------------
(* Claims about the form validation (checked under SpecForm) *)

WellFormed(time) == Len(time) = 3 /\ time[1] \in 0..23 /\ time[2] \in 0..59 /\ time[3] \in 0..59

\* C9: for well-formed times isEndTimeAfterStartTime is TRUE exactly when endTime
\* is strictly later than startTime on the same day, and validateSegmentForm
\* answers an end equal to or earlier than the start with isValid = FALSE and
\* the message on errors.endTime.
C9_EndMustFollowStart ==
    LET fd == cArgs.formData IN
    (cCall # "none" /\ WellFormed(fd.startTime) /\ WellFormed(fd.endTime)) =>
        /\ cCall = "isEndTimeAfterStartTime" =>
              (cResult <=> SecOfDay(fd.endTime) > SecOfDay(fd.startTime))
        /\ (cCall = "validateSegmentForm" /\ SecOfDay(fd.endTime) <= SecOfDay(fd.startTime)) =>
              /\ ~cResult.isValid
              /\ cResult.errors.endTime = "End time must be after start time"

C9_Witness ==
    /\ cCall = "validateSegmentForm"
    /\ cArgs.formData.startTime = <<9, 0, 0>>
    /\ cArgs.formData.endTime = <<8, 0, 0>>
    /\ ~cResult.isValid
    /\ cResult.errors.endTime = "End time must be after start time"

----------------------------------------------------------------------------
(* Claims about the segment API (checked under SpecApi) *)

\* C1: in every state reached by create, update and delete requests, no two
\* stored segments of the same machineName have intersecting absolute intervals.
C1_NoOverlapStored ==
    \A a \in db : \A b \in db :
        (a.id # b.id /\ a.machineName = b.machineName) => ~Intersects(a, b)

----------------------------------------------------------------------------
(* Claims about saving a row (checked under SpecSave) *)

\* a name starting with 'm' or 'M' with its first character made 'M', any
\* other name as it is
ExpectedName(name) ==
    IF name # <<>> /\ name[1] \in {"m", "M"}
    THEN [i \in 1..Len(name) |-> IF i = 1 THEN "M" ELSE name[i]]
    ELSE name

\* C10: machine-name normalization turns a first character 'm' or 'M' into 'M'
\* and leaves the rest of the name, and every other name, unchanged; it is
\* idempotent; no segment saved through the model or through handleSave has a
\* machineName starting with lowercase 'm'.
C10_MachineNameNormalized ==
    LET name == row.machineName IN
    /\ formatMachineName(name) = ExpectedName(name)
    /\ formatMachineName(formatMachineName(name)) = formatMachineName(name)
    /\ formatRowMachineName(name) = ExpectedName(name)
    /\ formatRowMachineName(formatRowMachineName(name)) = formatRowMachineName(name)
    /\ \A seg \in db : seg.machineName # <<>> /\ seg.machineName[1] # "m"
    /\ status \in {200, 201} =>
          \E seg \in db :
              /\ seg.machineName = ExpectedName(Trim(name))
              /\ seg.startTime = row.startTime
              /\ seg.endTime = row.endTime

C10_Witness ==
    /\ status = 201
    /\ row.machineName = <<"m", "7">>
    /\ 2 \in segments
    /\ \E seg \in db : seg.machineName = <<"M", "7">>

----------------------------------------------------------------------------
(* Claims about the form validation and the server's rules (SpecForm) *)

\* the candidate's fields are well formed and its interval lies within its day
PlainCandidate(cand) ==
    /\ cand.date # 0
    /\ isValidTimeFormatClient(cand.startTime)
    /\ isValidTimeFormatClient(cand.endTime)
    /\ SecOfDay(cand.startTime) < SecOfDay(cand.endTime)

\* the existing rows another segment would be stored next to: those that the
\* server's machine-name rule files under the candidate's stored name
RowsOfStoredMachine(cand) ==
    { i \in 1..Len(rows) :
          /\ formatMachineName(rows[i].machineName) = formatMachineName(cand.machineName)
          /\ rows[i].date = cand.date
          /\ rows[i].id # cand.id }

\* C11: the validator groups by the normalized machine name: a candidate whose
\* stored name equals that of an existing segment of the same date which it
\* intersects (neither crossing midnight) is rejected by validateSegmentForm.
C11_NormalizedBeforeGrouping ==
    (cCall = "validateSegmentForm" /\ PlainCandidate(cArgs.formData)) =>
        \A i \in RowsOfStoredMachine(cArgs.formData) :
            (~CrossesMidnight(rows[i]) /\ Intersects(cArgs.formData, rows[i]))
                => (~cResult.isValid /\ cResult.errors.general # "")

\* some field of the form is blank or malformed
Malformed(formData) ==
    \/ formData.date = 0
    \/ ~isValidTimeFormatClient(formData.startTime)
    \/ ~isValidTimeFormatClient(formData.endTime)
    \/ ~isValidMachineName(formData.machineName)
    \/ ~isValidSegmentType(formData.segmentType)

\* C17: for every input, blank and malformed fields included, the result of
\* validateSegmentForm has exactly the fields isValid and errors, and isValid
\* is true if and only if no key of errors carries a message.
C17_ResultShape ==
    cCall = "validateSegmentForm" =>
        /\ DOMAIN cResult = {"isValid", "errors"}
        /\ cResult.isValid \in BOOLEAN
        /\ cResult.isValid <=> (\A k \in DOMAIN cResult.errors : cResult.errors[k] = "")

C17_Witness ==
    /\ cCall = "validateSegmentForm"
    /\ Malformed(cArgs.formData)
    /\ cArgs.formData.startTime = <<25, 0, 0>>
    /\ cArgs.formData.machineName = <<>>
    /\ ~cResult.isValid
    /\ cResult.errors.startTime # ""

\* C18: the overlap check runs only after every single-field check has
\* passed: a result that carries errors.general carries no error for date,
\* startTime, endTime, machineName or segmentType.
C18_GeneralOnlyAfterFieldChecks ==
    (cCall = "validateSegmentForm" /\ cResult.errors.general # "") =>
        /\ cResult.errors.date = ""
        /\ cResult.errors.startTime = ""
        /\ cResult.errors.endTime = ""
        /\ cResult.errors.machineName = ""
        /\ cResult.errors.segmentType = ""

\* a request body that is acceptable in every field but, possibly, its type
BodyOfType(type) ==
    [date |-> 1, startTime |-> <<8, 0, 0>>, endTime |-> <<9, 0, 0>>,
     machineName |-> <<"M", "1">>, segmentType |-> type]

\* the server takes the type: the request validators and the schema enum
ServerAcceptsType(type) ==
    validateCreateSegment(BodyOfType(type)) /\ schemaValid(BodyOfType(type))

\* C19: the client validator and the server accept the same segment types,
\* exactly uptime, downtime, idle and select: validateSegmentForm leaves
\* errors.segmentType unset exactly for the types the server accepts.
C19_SameSegmentTypes ==
    cCall = "validateSegmentForm" =>
        LET type == cArgs.formData.segmentType
        IN  /\ (cResult.errors.segmentType = "") <=> ServerAcceptsType(type)
            /\ (cResult.errors.segmentType = "")
                   <=> type \in {"uptime", "downtime", "idle", "select"}

----------------------------------------------------------------------------
(* Formatting of durations. A string is the sequence of its characters.      *)

MaxMinutes == 200

\* Number.prototype.toString of a non-negative whole number
Digit(d) == <<"0", "1", "2", "3", "4", "5", "6", "7", "8", "9">>[d + 1]

RECURSIVE toString(_)
toString(n) ==
    IF n < 10 THEN <<Digit(n)>> ELSE toString(n \div 10) \o <<Digit(n % 10)>>

\* Number.prototype.toString / $toString of a whole number of either sign
signedToString(n) == IF n < 0 THEN <<"-">> \o toString(0 - n) ELSE toString(n)

\* the remainder of JavaScript's % and of $mod: it has the sign of the dividend
Remainder(n, d) == IF n < 0 THEN 0 - ((0 - n) % d) ELSE n % d

\* a JavaScript number that may not be finite: NaN, an infinity (value is its
\* sign), or the whole number `value`
Number(n) == [kind |-> "number", value |-> n]
NaN == [kind |-> "NaN", value |-> 0]
Infinity(sign) == [kind |-> "Infinity", value |-> sign]

\* the string of a JavaScript number, as a template literal writes it
numberToString(x) ==
    IF x.kind = "NaN" THEN <<"N", "a", "N">>
    ELSE IF x.kind = "Infinity"
    THEN (IF x.value < 0 THEN <<"-">> ELSE <<>>)
             \o <<"I", "n", "f", "i", "n", "i", "t", "y">>
    ELSE signedToString(x.value)

\* Math.floor(minutes / 60): NaN and the infinities stay what they are
FloorOfHours(minutes) ==
    IF minutes.kind = "number" THEN Number(minutes.value \div 60) ELSE minutes

\* minutes % 60: NaN for NaN and for the infinities
MinutesOfHour(minutes) ==
    IF minutes.kind = "number" THEN Number(Remainder(minutes.value, 60)) ELSE NaN

\* (a variant of formatDuration that always writes both parts)
formatDurationBothParts(minutes) ==
    numberToString(FloorOfHours(minutes)) \o <<"h", " ">>
        \o numberToString(MinutesOfHour(minutes)) \o <<"m">>

\* utils/validation formatDuration (client) of a number (a whole number of
\* minutes, NaN or an infinity)
formatDuration(minutes) ==
    LET hours == FloorOfHours(minutes)
        mins  == MinutesOfHour(minutes)
    IN  IF hours = Number(0) THEN numberToString(mins) \o <<"m">>
        ELSE IF mins = Number(0) THEN numberToString(hours) \o <<"h">>
        ELSE numberToString(hours) \o <<"h", " ">> \o numberToString(mins) \o <<"m">>

\* utils/timeUtils formatDuration (server) of a number: isNaN(minutes) throws,
\* every other number is formatted (Math.floor of the remainder of a whole
\* number is the remainder)
formatDurationTimeUtils(minutes) ==
    IF minutes.kind = "NaN" THEN Threw
    ELSE LET hours == FloorOfHours(minutes)
             mins  == MinutesOfHour(minutes)
         IN  IF hours = Number(0) THEN Returned(numberToString(mins) \o <<"m">>)
             ELSE IF mins = Number(0) THEN Returned(numberToString(hours) \o <<"h">>)
             ELSE Returned(numberToString(hours) \o <<"h", " ">>
                               \o numberToString(mins) \o <<"m">>)

----------------------------------------------------------------------------
(* Specification of the duration formatting: each step is one call *)

FormatInit ==
    /\ sCall = "none"
    /\ sArgs \in { Number(n) : n \in (0 - MaxMinutes)..MaxMinutes }
                   \cup { NaN, Infinity(1), Infinity(-1) }
    /\ sResult = 0
    /\ TimeIdle
    /\ ClientIdle
    /\ ApiIdle

CallFormatDuration ==
    /\ sCall = "none"
    /\ sCall' = "formatDuration"
    /\ sResult' = Returned(formatDuration(sArgs))
    /\ UNCHANGED <<sArgs, tvars, cvars, avars>>

CallFormatDurationTimeUtils ==
    /\ sCall = "none"
    /\ sCall' = "formatDurationTimeUtils"
    /\ sResult' = formatDurationTimeUtils(sArgs)
    /\ UNCHANGED <<sArgs, tvars, cvars, avars>>

FormatNext ==
    \/ CallFormatDuration
    \/ CallFormatDurationTimeUtils

SpecFormat == FormatInit /\ [][FormatNext]_vars

----------------------------------------------------------------------------
(* Claims about the duration formatting (checked under SpecFormat) *)

\* reading a compact duration back: the number written before a character
DigitValue(c) == CHOOSE d \in 0..9 : Digit(d) = c
IsDigit(c) == \E d \in 0..9 : Digit(d) = c

RECURSIVE ParseDigits(_)
ParseDigits(str) ==
    IF str = <<>> THEN 0
    ELSE ParseDigits(SubSeq(str, 1, Len(str) - 1)) * 10 + DigitValue(str[Len(str)])

\* the digits that end just before position i
RECURSIVE DigitsBefore(_, _)
DigitsBefore(str, i) ==
    IF i > 1 /\ IsDigit(str[i - 1])
    THEN DigitsBefore(str, i - 1) \o <<str[i - 1]>>
    ELSE <<>>

NumberBefore(str, unit) ==
    IF \E i \in 1..Len(str) : str[i] = unit
    THEN LET i == CHOOSE i \in 1..Len(str) : str[i] = unit
         IN  ParseDigits(DigitsBefore(str, i))
    ELSE 0

ReadBackMinutes(str) == NumberBefore(str, "h") * 60 + NumberBefore(str, "m")

\* C20: for every whole number of minutes m >= 0 both compact formatDuration
\* functions return "<m>m" when m < 60, "<h>h" when m is a positive multiple
\* of 60 and "<h>h <r>m" otherwise (h = m div 60, r = m mod 60), and h*60 + r
\* read back from the string is m.
C20_CompactFormat ==
    (/\ sCall \in {"formatDuration", "formatDurationTimeUtils"}
     /\ sArgs.kind = "number"
     /\ sArgs.value >= 0) =>
        LET m   == sArgs.value
            str == sResult.value
            h   == m \div 60
            r   == m % 60
        IN  /\ ~sResult.threw
            /\ m < 60 => str = toString(m) \o <<"m">>
            /\ (m >= 60 /\ r = 0) => str = toString(h) \o <<"h">>
            /\ (m >= 60 /\ r # 0) =>
                   str = toString(h) \o <<"h", " ">> \o toString(r) \o <<"m">>
            /\ ReadBackMinutes(str) = m
            /\ m = 0 => str = <<"0", "m">>
            /\ m = 30 => str = <<"3", "0", "m">>
            /\ m = 60 => str = <<"1", "h">>
            /\ m = 90 => str = <<"1", "h", " ", "3", "0", "m">>

C20_Witness ==
    /\ sCall = "formatDuration"
    /\ sArgs = Number(90)
    /\ sResult.value = <<"1", "h", " ", "3", "0", "m">>

\* C21: the server's formatDuration fails, and returns no string, for every
\* negative number and for NaN, +Infinity and -Infinity.
C21_RejectsNegativeAndNonFinite ==
    (/\ sCall = "formatDurationTimeUtils"
     /\ (sArgs.kind # "number" \/ sArgs.value < 0)) => sResult.threw

----------------------------------------------------------------------------
(* Aggregation of durations: utils/timeUtils and the Timeline component *)

MaxBatch == 3

\* (a variant of AddDuration that counts every segment as uptime)
AddDurationToUptime(totals, type, duration) ==
    [totals EXCEPT !.uptime = @ + duration]

\* if (segment.segmentType in totals) totals[segment.segmentType] += duration
AddDuration(totals, type, duration) ==
    IF type \in DOMAIN totals THEN [totals EXCEPT ![type] = @ + duration]
    ELSE totals

\* segments.forEach of calculateTotalDurations, from the first i segments on
RECURSIVE ForEachSegment(_, _, _)
ForEachSegment(segs, i, totals) ==
    IF i > Len(segs) THEN totals
    ELSE LET duration ==
                 calculateDuration(segs[i].startTime, segs[i].endTime, segs[i].date)
         IN  ForEachSegment(segs, i + 1,
                 AddDuration(totals, segs[i].segmentType, duration.value))

\* calculateTotalDurations: a segment whose duration cannot be calculated makes
\* the whole call throw, whatever its type
calculateTotalDurations(segs) ==
    IF \E i \in 1..Len(segs) :
           calculateDuration(segs[i].startTime, segs[i].endTime, segs[i].date).threw
    THEN Threw
    ELSE LET totals ==
                 ForEachSegment(segs, 1, [uptime |-> 0, downtime |-> 0, idle |-> 0])
         IN  Returned([minutes   |-> totals,
                       formatted |-> [type \in DOMAIN totals |->
                                        formatDurationTimeUtils(Number(totals[type])).value]])

\* Math.round((part / total) * 100) for total > 0. The product is a double:
\* at an exact half it may lie just under the half (23 / 40 * 100 is
\* 57.49999999999999), so either neighbour is an outcome there (tieUp).
RoundedPercent(part, total, tieUp) ==
    LET floor == (100 * part) \div total
        rest  == 100 * part - floor * total
    IN  IF 2 * rest < total THEN floor
        ELSE IF 2 * rest > total THEN floor + 1
        ELSE IF tieUp THEN floor + 1 ELSE floor

\* reduce((total, segment) => total + segment.duration, 0) over the segments
\* of one status ("" for all of them)
RECURSIVE SumOfStatus(_, _)
SumOfStatus(segs, wanted) ==
    IF segs = <<>> THEN 0
    ELSE (IF wanted = "" \/ Head(segs).status = wanted THEN Head(segs).duration ELSE 0)
             + SumOfStatus(Tail(segs), wanted)

\* Timeline calculateMachineStats(machine)
calculateMachineStats(machine, tieUp) ==
    LET totalDuration    == SumOfStatus(machine.segments, "")
        uptimeDuration   == SumOfStatus(machine.segments, "uptime")
        downtimeDuration == SumOfStatus(machine.segments, "downtime")
        idleDuration     == SumOfStatus(machine.segments, "idle")
        uptimePercentage ==
            IF totalDuration > 0
            THEN RoundedPercent(uptimeDuration, totalDuration, tieUp)
            ELSE 0
    IN  [totalDuration |-> formatDuration(Number(totalDuration)),
         uptime |-> formatDuration(Number(uptimeDuration)),
         downtime |-> formatDuration(Number(downtimeDuration)),
         idle |-> formatDuration(Number(idleDuration)),
         uptimePercentage |-> uptimePercentage]

----------------------------------------------------------------------------
(* Specification of the aggregation functions: each step is one call on a    *)
(* batch of segments or on a machine of the timeline                         *)

BatchTimes ==
    { <<<<8, 0, 0>>, <<10, 0, 0>>>>, <<<<10, 0, 0>>, <<11, 0, 0>>>>,
      <<<<11, 0, 0>>, <<15, 0, 0>>>>, <<<<23, 0, 0>>, <<1, 0, 0>>>> }

BatchSegments ==
    { [date |-> 1, startTime |-> p[1], endTime |-> p[2],
       machineName |-> <<"M", "1">>, segmentType |-> type] :
          p \in BatchTimes, type \in SegmentTypes }

SeqsUpTo(S, n) == UNION { [1..k -> S] : k \in 0..n }

TimelineSegments == [status : {"uptime", "downtime", "idle"}, duration : {0, 23, 17}]

TotalsInit ==
    /\ sCall = "none"
    /\ sArgs \in [segments : SeqsUpTo(BatchSegments, MaxBatch)]
                     \cup [machine : [segments : SeqsUpTo(TimelineSegments, MaxBatch)]]
    /\ sResult = 0
    /\ TimeIdle
    /\ ClientIdle
    /\ ApiIdle

CallCalculateTotalDurations ==
    /\ sCall = "none"
    /\ "segments" \in DOMAIN sArgs
    /\ sCall' = "calculateTotalDurations"
    /\ sResult' = calculateTotalDurations(sArgs.segments)
    /\ UNCHANGED <<sArgs, tvars, cvars, avars>>

CallCalculateMachineStats ==
    /\ sCall = "none"
    /\ "machine" \in DOMAIN sArgs
    /\ sCall' = "calculateMachineStats"
    /\ \E tieUp \in BOOLEAN :
           sResult' = calculateMachineStats(sArgs.machine, tieUp)
    /\ UNCHANGED <<sArgs, tvars, cvars, avars>>

TotalsNext ==
    \/ CallCalculateTotalDurations
    \/ CallCalculateMachineStats

SpecTotals == TotalsInit /\ [][TotalsNext]_vars

----------------------------------------------------------------------------
(* Claims about the aggregation functions (checked under SpecTotals) *)

RECURSIVE SumOver(_, _)
SumOver(indices, f) ==
    IF indices = {} THEN 0
    ELSE LET i == CHOOSE i \in indices : TRUE
         IN  f[i] + SumOver(indices \ {i}, f)

\* the whole minutes between the start and the rollover-resolved end
RolloverMinutes(seg) == (AbsEnd(seg) - AbsStart(seg)) \div 60

NotSelect(seg) == seg.segmentType # "select"

ExampleBatch ==
    << [date |-> 1, startTime |-> <<8, 0, 0>>, endTime |-> <<10, 0, 0>>,
        machineName |-> <<"M", "1">>, segmentType |-> "uptime"],
       [date |-> 1, startTime |-> <<10, 0, 0>>, endTime |-> <<11, 0, 0>>,
        machineName |-> <<"M", "1">>, segmentType |-> "downtime"],
       [date |-> 1, startTime |-> <<11, 0, 0>>, endTime |-> <<15, 0, 0>>,
        machineName |-> <<"M", "1">>, segmentType |-> "uptime"] >>

\* C12: calculateTotalDurations returns for uptime, downtime and idle the sum
\* of the durations of the segments of that type; select segments change
\* nothing, an all-select batch gives zeros, and the batch 08:00-10:00 uptime,
\* 10:00-11:00 downtime, 11:00-15:00 uptime gives 360, 60 and 0.
C12_TotalsByType ==
    sCall = "calculateTotalDurations" =>
        LET segs    == sArgs.segments
            minutes == sResult.value.minutes
        IN  /\ ~sResult.threw
            /\ DOMAIN minutes = {"uptime", "downtime", "idle"}
            /\ \A type \in DOMAIN minutes :
                   minutes[type] =
                       SumOver({ i \in 1..Len(segs) : segs[i].segmentType = type },
                               [i \in 1..Len(segs) |-> RolloverMinutes(segs[i])])
            /\ minutes = calculateTotalDurations(SelectSeq(segs, NotSelect)).value.minutes
            /\ (\A i \in 1..Len(segs) : segs[i].segmentType = "select")
                   => minutes = [uptime |-> 0, downtime |-> 0, idle |-> 0]
            /\ segs = ExampleBatch
                   => minutes = [uptime |-> 360, downtime |-> 60, idle |-> 0]

C12_Witness ==
    /\ sCall = "calculateTotalDurations"
    /\ Len(sArgs.segments) = 3
    /\ sArgs.segments[1].segmentType = "uptime"
    /\ sArgs.segments[2].segmentType = "select"
    /\ sArgs.segments[3].segmentType = "downtime"
    /\ sResult.value.minutes.uptime > 0
    /\ sResult.value.minutes.downtime > 0
    /\ sResult.value.minutes.idle = 0

----------------------------------------------------------------------------
(* Statistics and analytics endpoints of the segment controller. The times   *)
(* of the stored segments of this part have zero seconds, so that a number   *)
(* of minutes ($divide by 60000) is a whole number.                          *)

\* String.prototype.padStart(2, "0")
padStart2(str) == IF Len(str) < 2 THEN <<"0">> \o str ELSE str

\* the controller's formatDuration helper (HH:MM:00); minutes is whole, so
\* Math.floor(minutes / 60) is the floored quotient and Math.floor of the
\* remainder is the remainder
formatDurationClock(minutes) ==
    LET hours == minutes \div 60
        mins  == Remainder(minutes, 60)
    IN  padStart2(signedToString(hours)) \o <<":">>
            \o padStart2(signedToString(mins)) \o <<":", "0", "0">>

\* { $toDate: { $concat: ["$date", "T", time] } }: the instant, in seconds
ToDate(date, time) == date * SecondsPerDay + time[1] * 3600 + time[2] * 60 + time[3]

\* the $let expression summed into totalDuration: end minus start of the same
\* date, in minutes
SubtractMinutes(doc) ==
    LET diff == ToDate(doc.date, doc.endTime) - ToDate(doc.date, doc.startTime)
    IN  IF diff >= 0 THEN diff \div 60 ELSE 0 - ((0 - diff) \div 60)

\* { $match: filter }: date bounds (0: not given) and, for the analytics, the
\* machine name (<<>>: not given)
MatchFilter(docs, query) ==
    { doc \in docs :
          /\ query.startDate # 0 => doc.date >= query.startDate
          /\ query.endDate # 0 => doc.date <= query.endDate
          /\ ("machineName" \in DOMAIN query /\ query.machineName # <<>>)
                 => doc.machineName = query.machineName }

\* $sum over a group of documents
RECURSIVE SumDuration(_)
SumDuration(docs) ==
    IF docs = {} THEN 0
    ELSE LET doc == CHOOSE doc \in docs : TRUE
         IN  SubtractMinutes(doc) + SumDuration(docs \ {doc})

\* the values a $group/_id can take in this model, in the order of $sort
TypeOrder == <<"downtime", "idle", "select", "uptime">>
NameOrder == << <<"M", "1">>, <<"M", "2">> >>
DateOrder == <<1, 2>>

\* the keys of `order` that occur as field `key` of some document, in order
GroupIds(docs, key, order) ==
    SelectSeq(order, LAMBDA id : \E doc \in docs : doc[key] = id)

\* a $group by one field followed by { $sort: { _id: 1 } }, counting only
GroupCount(docs, key, order) ==
    LET ids == GroupIds(docs, key, order)
    IN  [k \in 1..Len(ids) |->
            [id |-> ids[k],
             count |-> Cardinality({ doc \in docs : doc[key] = ids[k] })]]

\* the byType facet: count and totalDuration of each segment type
ByTypeFacet(docs) ==
    LET ids == GroupIds(docs, "segmentType", TypeOrder)
    IN  [k \in 1..Len(ids) |->
            LET group == { doc \in docs : doc.segmentType = ids[k] }
            IN  [id |-> ids[k], count |-> Cardinality(group),
                 totalDuration |-> SumDuration(group)]]

\* segmentTypes.reduce((acc, type) => acc + type.totalDuration, 0)
RECURSIVE ReduceTotal(_)
ReduceTotal(entries) ==
    IF entries = <<>> THEN 0
    ELSE Head(entries).totalDuration + ReduceTotal(Tail(entries))

\* Math.round((a / total) * 100): dividing by zero gives NaN or an infinity,
\* which Math.round returns unchanged
Percentage(a, total, tieUp) ==
    IF total = 0
    THEN (IF a = 0 THEN NaN ELSE IF a > 0 THEN Infinity(1) ELSE Infinity(-1))
    ELSE IF total > 0 THEN Number(RoundedPercent(a, total, tieUp))
    ELSE Number(RoundedPercent(0 - a, 0 - total, tieUp))

\* GET /api/segments/stats
getStats(query, tieUp) ==
    LET docs == MatchFilter(db, [startDate |-> query.startDate,
                                 endDate |-> query.endDate])
        segmentTypes == ByTypeFacet(docs)
        totalDuration == ReduceTotal(segmentTypes)
    IN  [status |-> 200,
         data |->
           [byType |->
                [k \in 1..Len(segmentTypes) |->
                    [id |-> segmentTypes[k].id,
                     count |-> segmentTypes[k].count,
                     totalDuration |-> segmentTypes[k].totalDuration,
                     percentage |->
                         Percentage(segmentTypes[k].totalDuration, totalDuration, tieUp),
                     formattedDuration |->
                         formatDurationClock(segmentTypes[k].totalDuration)]],
            byMachine |-> GroupCount(docs, "machineName", NameOrder),
            byDate |-> GroupCount(docs, "date", DateOrder),
            totals |->
                [totalSegments |-> Cardinality(docs),
                 uniqueMachineCount |-> Cardinality({ doc.machineName : doc \in docs }),
                 uniqueDateCount |-> Cardinality({ doc.date : doc \in docs })]]]

\* the formattedDuration of the analytics: floor(total / 60) ":" the remainder,
\* with a "0" in front when it is below 10, ":00"
analyticsFormattedDuration(total) ==
    LET rest == Remainder(total, 60)
    IN  signedToString(total \div 60) \o <<":">>
            \o (IF rest < 10 THEN <<"0">> \o signedToString(rest)
                ELSE signedToString(rest))
            \o <<":", "0", "0">>

\* GET /api/segments/analytics: per machine, in the order of the names, the
\* entries of its segment types (pushed in no particular order: a set)
getSegmentAnalytics(query) ==
    LET docs == MatchFilter(db, query)
        ids  == GroupIds(docs, "machineName", NameOrder)
    IN  [status |-> 200,
         data |->
           [k \in 1..Len(ids) |->
               LET ofMachine == { doc \in docs : doc.machineName = ids[k] }
               IN  [id |-> ids[k],
                    segments |->
                        { [type |-> type,
                           count |-> Cardinality(
                               { doc \in ofMachine : doc.segmentType = type }),
                           totalDuration |-> SumDuration(
                               { doc \in ofMachine : doc.segmentType = type }),
                           formattedDuration |-> analyticsFormattedDuration(
                               SumDuration(
                                   { doc \in ofMachine : doc.segmentType = type }))] :
                             type \in { doc.segmentType : doc \in ofMachine } },
                    totalSegments |-> Cardinality(ofMachine)]]]

----------------------------------------------------------------------------
(* Specification of the statistics endpoints: one request on a collection    *)
(* of stored segments                                                        *)

MaxDocs == 2

\* 01:00-23:00, 23:00-01:00 and 23:00-01:30 (both over midnight), 08:00-08:23,
\* 08:00-08:17
StatsTimes ==
    << <<<<1, 0, 0>>, <<23, 0, 0>>>>, <<<<23, 0, 0>>, <<1, 0, 0>>>>,
       <<<<23, 0, 0>>, <<1, 30, 0>>>>, <<<<8, 0, 0>>, <<8, 23, 0>>>>,
       <<<<8, 0, 0>>, <<8, 17, 0>>>> >>

\* the documents a collection is made of: each passes the schema validators
\* and the pre-save hook, under its normalized name, with an id of its own
StatsDocs ==
    { doc \in
        { [id |-> (k - 1) * 20 + (j - 1) * 5 + t, date |-> DateOrder[k],
           startTime |-> StatsTimes[t][1], endTime |-> StatsTimes[t][2],
           machineName |-> NameOrder[k], segmentType |-> TypeOrder[j]] :
              k \in 1..2, j \in 1..4, t \in 1..5 } :
        save(doc, 201) = [status |-> 201, doc |-> doc] }

\* the subsets of S of at most n elements
RECURSIVE SubsetsUpTo(_, _)
SubsetsUpTo(S, n) ==
    IF n = 0 THEN { {} }
    ELSE LET smaller == SubsetsUpTo(S, n - 1)
         IN  smaller \cup { T \cup {x} : T \in smaller, x \in S }

StatsQueries ==
    { [machineName |-> n, startDate |-> p[1], endDate |-> p[2]] :
          n \in { <<>>, <<"M", "1">> }, p \in { <<0, 0>>, <<2, 0>>, <<0, 1>> } }

StatsInit ==
    /\ db \in SubsetsUpTo(StatsDocs, MaxDocs)
    /\ status = 0
    /\ segments = {}
    /\ row = NoRow
    /\ sCall = "none"
    /\ sArgs \in StatsQueries
    /\ sResult = 0
    /\ TimeIdle
    /\ ClientIdle

GetStats ==
    /\ sCall = "none"
    /\ sCall' = "getStats"
    /\ \E tieUp \in BOOLEAN :
           LET res == getStats(sArgs, tieUp)
           IN  /\ status' = res.status
               /\ sResult' = res.data
    /\ UNCHANGED <<db, segments, row, sArgs, tvars, cvars>>

GetSegmentAnalytics ==
    /\ sCall = "none"
    /\ sCall' = "getSegmentAnalytics"
    /\ LET res == getSegmentAnalytics(sArgs)
       IN  /\ status' = res.status
           /\ sResult' = res.data
    /\ UNCHANGED <<db, segments, row, sArgs, tvars, cvars>>

StatsNext ==
    \/ GetStats
    \/ GetSegmentAnalytics

SpecStats == StatsInit /\ [][StatsNext]_vars

----------------------------------------------------------------------------
(* Claims about the statistics endpoints (checked under SpecStats) *)

\* the stored segments a statistics request is about
StatsMatched ==
    MatchFilter(db, [startDate |-> sArgs.startDate, endDate |-> sArgs.endDate])

\* the sum of the durationMinutes virtual over a set of stored segments
RolloverTotal(docs) == SumOver(docs, [doc \in docs |-> durationMinutes(doc)])

\* C13: byType of the statistics has no entry for the type select, and the
\* select segments add nothing to the total duration the percentages are
\* taken of.
C13_SelectNotInStats ==
    sCall = "getStats" =>
        /\ \A k \in 1..Len(sResult.byType) : sResult.byType[k].id # "select"
        /\ ReduceTotal(sResult.byType) =
               SumDuration({ doc \in StatsMatched : doc.segmentType # "select" })

\* C14: every duration total of the statistics and of the analytics is the sum
\* of durationMinutes (with the midnight rollover) of the segments counted in
\* it, and none is negative.
C14_TotalsUseRollover ==
    /\ sCall = "getStats" =>
           \A k \in 1..Len(sResult.byType) :
               LET entry == sResult.byType[k]
               IN  /\ entry.totalDuration = RolloverTotal(
                           { doc \in StatsMatched : doc.segmentType = entry.id })
                   /\ entry.totalDuration >= 0
    /\ sCall = "getSegmentAnalytics" =>
           \A k \in 1..Len(sResult) : \A entry \in sResult[k].segments :
               /\ entry.totalDuration = RolloverTotal(
                      { doc \in MatchFilter(db, sArgs) :
                            /\ doc.machineName = sResult[k].id
                            /\ doc.segmentType = entry.type })
               /\ entry.totalDuration >= 0

\* C15: when the grand total of the durations is zero, every percentage of the
\* statistics is the number 0.
C15_ZeroTotalZeroPercent ==
    (sCall = "getStats" /\ ReduceTotal(sResult.byType) = 0) =>
        \A k \in 1..Len(sResult.byType) : sResult.byType[k].percentage = Number(0)

RECURSIVE SumPercentages(_)
SumPercentages(entries) ==
    IF entries = <<>> THEN 0
    ELSE Head(entries).percentage.value + SumPercentages(Tail(entries))

\* p is a whole number nearest to 100 * a / total (total > 0)
NearestPercent(p, a, total) ==
    /\ 2 * p * total - 200 * a <= total
    /\ 200 * a - 2 * p * total <= total

\* C16: when the grand total T of the three real categories is positive, each
\* percentage is 100 * total / T rounded to a nearest whole number, lies in
\* 0..100, and the percentages add up to 99, 100 or 101.
C16_PercentagesOfTotal ==
    (/\ sCall = "getStats"
     /\ ReduceTotal(sResult.byType) > 0
     /\ \A k \in 1..Len(sResult.byType) : sResult.byType[k].id # "select") =>
        LET T == ReduceTotal(sResult.byType)
        IN  /\ \A k \in 1..Len(sResult.byType) :
                   /\ sResult.byType[k].percentage.kind = "number"
                   /\ sResult.byType[k].percentage.value \in 0..100
                   /\ NearestPercent(sResult.byType[k].percentage.value,
                                     sResult.byType[k].totalDuration, T)
            /\ SumPercentages(sResult.byType) \in 99..101

----------------------------------------------------------------------------
(* Specification of one update request: PUT /api/segments/:id on a           *)
(* collection of stored segments; sArgs keeps the request and the collection *)
(* as it was before                                                          *)

\* 08:00-23:00 and 23:00-08:00
UpdateTimes == << <<<<8, 0, 0>>, <<23, 0, 0>>>>, <<<<23, 0, 0>>, <<8, 0, 0>>>> >>

\* documents as save() wrote them, each with an id of its own
UpdateDocs ==
    { doc \in
        { [id |-> (d - 1) * 4 + (n - 1) * 2 + t, date |-> DateOrder[d],
           startTime |-> UpdateTimes[t][1], endTime |-> UpdateTimes[t][2],
           machineName |-> NameOrder[n], segmentType |-> "uptime"] :
              d \in 1..2, n \in 1..2, t \in 1..2 } :
        save(doc, 201) = [status |-> 201, doc |-> doc] }

UpdateInit ==
    /\ db \in SubsetsUpTo(UpdateDocs, MaxSegments)
    /\ status = 0
    /\ segments = {}
    /\ row = NoRow
    /\ sCall = "none"
    /\ sArgs \in [id : { doc.id : doc \in db } \cup {0}, body : UpdateBodies,
                  before : {db}]
    /\ sResult = 0
    /\ TimeIdle
    /\ ClientIdle

PutSegment ==
    /\ sCall = "none"
    /\ sCall' = "updateSegment"
    /\ LET res == updateSegment(sArgs.id, BodyOf(sArgs.body))
       IN  /\ db' = res.db
           /\ status' = res.status
           /\ sResult' = res.status
    /\ UNCHANGED <<segments, row, sArgs, tvars, cvars>>

UpdateNext == PutSegment

SpecUpdate == UpdateInit /\ [][UpdateNext]_vars

----------------------------------------------------------------------------
(* Overlap report of utils/timeUtils: checkOverlaps *)

\* (a variant of ComparesBefore that looks at the dates only)
ComparesBeforeByDate(a, b) == a.date < b.date

\* the sort callback is negative: a.date.localeCompare(b.date), then
\* a.startTime.localeCompare(b.startTime); on well-formed strings these are
\* the orders of the day numbers and of the times of day
ComparesBefore(a, b) ==
    \/ a.date < b.date
    \/ (a.date = b.date /\ Moment(0, a.startTime) < Moment(0, b.startTime))

\* x put into a sorted array behind everything that does not come after it
RECURSIVE InsertSorted(_, _)
InsertSorted(sorted, x) ==
    IF sorted = <<>> THEN <<x>>
    ELSE IF ComparesBefore(x, Head(sorted)) THEN <<x>> \o sorted
    ELSE <<Head(sorted)>> \o InsertSorted(Tail(sorted), x)

\* [...segments].sort(...): Array.prototype.sort is stable
RECURSIVE sortSegmentsChronologically(_)
sortSegmentsChronologically(segs) ==
    IF segs = <<>> THEN <<>>
    ELSE InsertSorted(
             sortSegmentsChronologically(SubSeq(segs, 1, Len(segs) - 1)),
             segs[Len(segs)])

\* overlapMinutes: currentEnd.diff(nextStart, "minutes")
OverlapMinutes(currentEnd, nextStart) == DiffMinutes(currentEnd, nextStart)

\* the for loop of checkOverlaps from index i on
RECURSIVE ScanAdjacent(_, _)
ScanAdjacent(sortedSegments, i) ==
    IF i > Len(sortedSegments) - 1 THEN <<>>
    ELSE LET current      == sortedSegments[i]
             next         == sortedSegments[i + 1]
             currentStart == Moment(current.date, current.startTime)
             currentEnd   == RolledEnd(currentStart,
                                       Moment(current.date, current.endTime))
             nextStart    == Moment(next.date, next.startTime)
             nextEnd      == RolledEnd(nextStart, Moment(next.date, next.endTime))
         IN  (IF currentEnd > nextStart
              THEN <<[segment1 |-> current, segment2 |-> next,
                      overlapMinutes |-> OverlapMinutes(currentEnd, nextStart)]>>
              ELSE <<>>)
                 \o ScanAdjacent(sortedSegments, i + 1)

checkOverlaps(segs, machineName) ==
    IF machineName = <<>> THEN Threw
    ELSE LET machineSegments ==
                 SelectSeq(segs, LAMBDA segment : segment.machineName = machineName)
         IN  Returned(ScanAdjacent(sortSegmentsChronologically(machineSegments), 1))

----------------------------------------------------------------------------
(* Specification of the overlap report: each step is one call *)

\* 08:00-12:00, 09:00-10:00, 11:00-13:00, 23:00-01:00, 00:30-02:00
OverlapTimes ==
    { <<<<8, 0, 0>>, <<12, 0, 0>>>>, <<<<9, 0, 0>>, <<10, 0, 0>>>>,
      <<<<11, 0, 0>>, <<13, 0, 0>>>>, <<<<23, 0, 0>>, <<1, 0, 0>>>>,
      <<<<0, 30, 0>>, <<2, 0, 0>>>> }

OverlapSegments ==
    { [date |-> d, startTime |-> p[1], endTime |-> p[2],
       machineName |-> <<"M", "1">>, segmentType |-> "uptime"] :
          d \in Dates, p \in OverlapTimes }
    \cup
    { [date |-> 1, startTime |-> <<9, 0, 0>>, endTime |-> <<10, 0, 0>>,
       machineName |-> <<"M", "2">>, segmentType |-> "uptime"] }

OverlapsInit ==
    /\ sCall = "none"
    /\ sArgs \in [segments : SeqsUpTo(OverlapSegments, MaxBatch),
                  machineName : { <<"M", "1">>, <<"M", "2">>, <<>> }]
    /\ sResult = 0
    /\ TimeIdle
    /\ ClientIdle
    /\ ApiIdle

CallSortSegmentsChronologically ==
    /\ sCall = "none"
    /\ sCall' = "sortSegmentsChronologically"
    /\ sResult' = Returned(sortSegmentsChronologically(sArgs.segments))
    /\ UNCHANGED <<sArgs, tvars, cvars, avars>>

CallCheckOverlaps ==
    /\ sCall = "none"
    /\ sCall' = "checkOverlaps"
    /\ sResult' = checkOverlaps(sArgs.segments, sArgs.machineName)
    /\ UNCHANGED <<sArgs, tvars, cvars, avars>>

OverlapsNext ==
    \/ CallSortSegmentsChronologically
    \/ CallCheckOverlaps

SpecOverlaps == OverlapsInit /\ [][OverlapsNext]_vars

----------------------------------------------------------------------------
(* Claims about the overlap report (checked under SpecOverlaps) *)

\* the whole minutes during which both segments are active
IntersectionMinutes(a, b) ==
    LET from == IF AbsStart(a) > AbsStart(b) THEN AbsStart(a) ELSE AbsStart(b)
        to   == IF AbsEnd(a) < AbsEnd(b) THEN AbsEnd(a) ELSE AbsEnd(b)
    IN  IF to > from THEN (to - from) \div 60 ELSE 0

\* C23: for every pair checkOverlaps reports, overlapMinutes is the length in
\* whole minutes of the intersection of the two rollover-resolved intervals,
\* also when the later-starting segment ends before the earlier-starting one.
C23_OverlapMinutesIsIntersection ==
    (sCall = "checkOverlaps" /\ ~sResult.threw) =>
        \A k \in 1..Len(sResult.value) :
            sResult.value[k].overlapMinutes =
                IntersectionMinutes(sResult.value[k].segment1,
                                    sResult.value[k].segment2)

\* C24: checkOverlaps returns an empty list exactly when no two segments of
\* the machine intersect in absolute time.
C24_EmptyIffNoIntersection ==
    (sCall = "checkOverlaps" /\ sArgs.machineName # <<>>) =>
        LET segs == sArgs.segments
            ofMachine == { i \in 1..Len(segs) : segs[i].machineName = sArgs.machineName }
        IN  /\ ~sResult.threw
            /\ (sResult.value = <<>>)
                   <=> ~\E i \in ofMachine : \E j \in ofMachine :
                           i # j /\ Intersects(segs[i], segs[j])

\* three segments of the machine, first and last intersecting, handed over
\* out of order, with one pair reported
C24_Witness ==
    /\ sCall = "checkOverlaps"
    /\ Len(sArgs.segments) = 3
    /\ \A i \in 1..3 : sArgs.segments[i].machineName = sArgs.machineName
    /\ ComparesBefore(sArgs.segments[3], sArgs.segments[1])
    /\ Intersects(sArgs.segments[1], sArgs.segments[3])
    /\ ~Intersects(sArgs.segments[1], sArgs.segments[2])
    /\ Len(sResult.value) = 1

----------------------------------------------------------------------------
(* The other duration computations: the timeline endpoint and the client's   *)
(* utils/timeUtils. A number of minutes that need not be whole is kept as    *)
(* its number of seconds: Minutes(n) is n / 60 minutes.                      *)

Minutes(seconds) == [seconds |-> seconds]

\* Math.round of seconds / 60, for seconds >= 0: halves go up
RoundToMinutes(seconds) == (seconds + 30) \div 60

\* Segment.find(filter).sort({ date: 1, startTime: 1 }) as an array; the order
\* of documents that agree on both keys is not determined
RECURSIVE FindSorted(_)
FindSorted(docs) ==
    IF docs = {} THEN <<>>
    ELSE LET first == CHOOSE doc \in docs :
                          \A other \in docs : ~ComparesBefore(other, doc)
         IN  <<first>> \o FindSorted(docs \ {first})

\* the map callback of getTimelineData; lean() documents carry no virtuals, so
\* segment.durationFormatted is undefined
TimelineEntry(segment) ==
    LET startDateTime == JsDate(segment.date, segment.startTime)
        endDateTime0  == JsDate(segment.date, segment.endTime)
        endDateTime   == IF DateLT(endDateTime0, startDateTime)
                         THEN [endDateTime0 EXCEPT !.t = @ + SecondsPerDay]
                         ELSE endDateTime0
    IN  [id |-> segment.id, start |-> startDateTime, end |-> endDateTime,
         type |-> segment.segmentType, machine |-> segment.machineName,
         duration |-> [minutes |-> RoundToMinutes(endDateTime.t - startDateTime.t),
                       formatted |-> "undefined"]]

\* GET /api/segments/timeline/:machineName
getTimelineData(machineName, query) ==
    LET found == FindSorted(
                     MatchFilter(db, [machineName |-> machineName,
                                      startDate |-> query.startDate,
                                      endDate |-> query.endDate]))
    IN  [status |-> 200,
         count |-> Len(found),
         data |-> [k \in 1..Len(found) |-> TimelineEntry(found[k])]]

\* (a variant of calculateDurationInMinutes that does not add a day to an end
\* earlier than the start)
calculateDurationInMinutesSameDay(startTime, endTime) ==
    Minutes((endTime[1] * 3600 + endTime[2] * 60 + endTime[3])
                - (startTime[1] * 3600 + startTime[2] * 60 + startTime[3]))

\* client utils/timeUtils calculateDurationInMinutes on well-formed times:
\* hours * 60 + minutes + seconds / 60 of each, a day added to an earlier end
calculateDurationInMinutes(startTime, endTime) ==
    LET startTotal == startTime[1] * 3600 + startTime[2] * 60 + startTime[3]
        endTotal0  == endTime[1] * 3600 + endTime[2] * 60 + endTime[3]
        endTotal   == IF endTotal0 < startTotal THEN endTotal0 + 24 * 3600
                      ELSE endTotal0
    IN  Minutes(endTotal - startTotal)

----------------------------------------------------------------------------
(* Specification of the duration computations on one segment: the segment    *)
(* is stored (when save() takes it) and each step is one computation on it   *)

SegmentOfArgs ==
    [id |-> 1, date |-> tArgs.date, startTime |-> tArgs.startTime,
     endTime |-> tArgs.endTime, machineName |-> <<"M", "1">>,
     segmentType |-> "uptime"]

DurationsInit ==
    /\ tCall = "none"
    /\ tArgs \in GoodTimeArgs
    /\ tResult = Returned(0)
    /\ db = IF save(SegmentOfArgs, 201).status = 201 THEN {SegmentOfArgs} ELSE {}
    /\ status = 0
    /\ segments = {}
    /\ row = NoRow
    /\ ClientIdle
    /\ StatsIdle

GetTimelineData ==
    /\ tCall = "none"
    /\ tCall' = "getTimelineData"
    /\ LET res == getTimelineData(<<"M", "1">>, [startDate |-> 0, endDate |-> 0])
       IN  /\ status' = res.status
           /\ tResult' = Returned(res.data)
    /\ UNCHANGED <<tArgs, db, segments, row, cvars, svars>>

CallCalculateDurationInMinutes ==
    /\ tCall = "none"
    /\ tCall' = "calculateDurationInMinutes"
    /\ tResult' = Returned(calculateDurationInMinutes(tArgs.startTime, tArgs.endTime))
    /\ UNCHANGED <<tArgs, cvars, avars, svars>>

DurationsNext ==
    \/ CallCalculateDuration
    \/ CallDurationMinutes
    \/ GetTimelineData
    \/ CallCalculateDurationInMinutes

SpecDurations == DurationsInit /\ [][DurationsNext]_vars

\* C25: for every pair of well-formed times the backend calculateDuration,
\* the durationMinutes virtual, the timeline endpoint's duration and the
\* client's calculateDurationInMinutes give the same whole number of minutes,
\* which is 0 for a segment shorter than a minute.
C25_DurationsAgree ==
    LET whole == RolloverMinutes(tArgs)
    IN  /\ tCall \in {"calculateDuration", "durationMinutes"} =>
               tResult.value = whole
        /\ tCall = "getTimelineData" =>
               \A k \in 1..Len(tResult.value) :
                   tResult.value[k].duration.minutes = whole
        /\ tCall = "calculateDurationInMinutes" =>
               tResult.value = Minutes(60 * whole)

----------------------------------------------------------------------------
(* Specification of two browsers creating a segment for the same machine     *)
(* through useApi: each fetches the segment list, createData validates the   *)
(* candidate against the list it holds and posts it, and the server handles  *)
(* the requests in the order they arrive. sArgs[c] is client c's form data,  *)
(* sResult[c] its position, its list and the answer it got.                  *)

Clients == {1, 2}

RaceTimes == { <<8, 0, 0>>, <<9, 0, 0>>, <<10, 0, 0>> }

\* candidates for machine M1 on the first day, with the type as the form's
\* select offers it ("Uptime") and as the server's enum spells it ("uptime")
RaceCandidates ==
    { [id |-> 0, date |-> 1, startTime |-> s, endTime |-> e,
       machineName |-> <<"M", "1">>, segmentType |-> type] :
          s \in RaceTimes, e \in RaceTimes, type \in {"Uptime", "uptime"} }

\* what the collection holds before the two clients start
RaceStored ==
    { {},
      { [id |-> 1, date |-> 1, startTime |-> <<8, 0, 0>>, endTime |-> <<9, 0, 0>>,
         machineName |-> <<"M", "1">>, segmentType |-> "uptime"] } }

ClientAt(pc, list, answer) == [pc |-> pc, data |-> list, status |-> answer]

RaceInit ==
    /\ sCall = "createData"
    /\ sArgs \in { f \in [Clients -> RaceCandidates] :
                       /\ Intersects(f[1], f[2])
                       /\ \A c \in Clients : AbsStart(f[c]) < Moment(1, f[c].endTime) }
    /\ sResult = [c \in Clients |-> ClientAt("mounted", <<>>, 0)]
    /\ db \in RaceStored
    /\ status = 0
    /\ segments = {}
    /\ row = NoRow
    /\ TimeIdle
    /\ ClientIdle

\* fetchData("/api/segments"): the list the page holds becomes the stored one
FetchData(c) ==
    /\ sResult[c].pc = "mounted"
    /\ sResult' = [sResult EXCEPT ![c] = ClientAt("fetched", FindSorted(db), 0)]
    /\ UNCHANGED <<sCall, sArgs, tvars, cvars, avars>>

\* createData up to the await: validateData, then either the early return
\* with the errors or the request is sent
CreateData(c) ==
    /\ sResult[c].pc = "fetched"
    /\ LET validationResult == validateSegmentForm(sArgs[c], sResult[c].data, 2)
       IN  sResult' = [sResult EXCEPT
               ![c] = IF ~validationResult.isValid
                      THEN ClientAt("invalid", sResult[c].data, 0)
                      ELSE ClientAt("posted", sResult[c].data, 0)]
    /\ UNCHANGED <<sCall, sArgs, tvars, cvars, avars>>

\* the server handles the request of client c, and createData appends the
\* created document to its list when the answer is 201
HandlePost(c) ==
    /\ sResult[c].pc = "posted"
    /\ LET newId == Cardinality(db) + 1
           res == createSegment(sArgs[c], newId)
       IN  /\ db' = res.db
           /\ status' = res.status
           /\ sResult' = [sResult EXCEPT
                  ![c] = ClientAt("done",
                             IF res.status = 201
                             THEN Append(sResult[c].data,
                                         CHOOSE doc \in res.db : doc.id = newId)
                             ELSE sResult[c].data,
                             res.status)]
    /\ UNCHANGED <<sCall, sArgs, segments, row, tvars, cvars>>

RaceNext == \E c \in Clients : FetchData(c) \/ CreateData(c) \/ HandlePost(c)

SpecRace == RaceInit /\ [][RaceNext]_vars

----------------------------------------------------------------------------
(* Claim about concurrent creates (checked under SpecRace) *)

----------------------------------------------------------------------------
(* The machine timeline's downtime analytics (client utils/timeUtils and the *)
(* MachineTimeline component)                                                *)

\* the most segments one machine of the timeline holds
MaxMachineData == 2

\* client formatDuration(minutes) -> "HH:MM:SS" on a sum of durations of
\* `minutes.seconds` sixtieths. The sum is a double: when a time with seconds
\* went into it and it should be whole, it may fall an ulp short of the whole
\* number (3.9999999999999996 for 00:00:07 to 00:04:07), and then Math.floor
\* gives the minute before and Math.round((minutes % 1) * 60) gives 60.
formatDurationHMS(minutes, short) ==
    LET seconds == minutes.seconds
        hours == IF short THEN (seconds - 1) \div 3600 ELSE seconds \div 3600
        mins  == IF short THEN ((seconds - 1) \div 60) % 60 ELSE (seconds \div 60) % 60
        secs  == IF short THEN 60 ELSE seconds % 60
    IN  padStart2(toString(hours)) \o <<":">> \o padStart2(toString(mins))
            \o <<":">> \o padStart2(toString(secs))

\* whether the double that sums these durations can fall short of a whole
\* number of minutes
CanFallShort(segs, total) ==
    /\ total.seconds > 0
    /\ total.seconds % 60 = 0
    /\ \E i \in 1..Len(segs) : segs[i].startTime[3] # 0 \/ segs[i].endTime[3] # 0

RECURSIVE SumDurationsOfType(_, _)
\* the forEach of calculateDowntimeAnalytics, for one of its two sums
SumDurationsOfType(segs, type) ==
    IF Len(segs) = 0 THEN 0
    ELSE SumDurationsOfType(SubSeq(segs, 1, Len(segs) - 1), type)
             + (IF segs[Len(segs)].segmentType = type
                THEN calculateDurationInMinutes(segs[Len(segs)].startTime,
                                                segs[Len(segs)].endTime).seconds
                ELSE 0)

calculateDowntimeAnalytics(segs, shortDowntime, shortIdle) ==
    LET unplannedDowntime == Minutes(SumDurationsOfType(segs, "downtime"))
        plannedDeviated   == Minutes(SumDurationsOfType(segs, "idle"))
    IN  [unplannedDowntime |->
             formatDurationHMS(unplannedDowntime,
                 shortDowntime /\ CanFallShort(segs, unplannedDowntime)),
         plannedDeviated |->
             formatDurationHMS(plannedDeviated,
                 shortIdle /\ CanFallShort(segs, plannedDeviated))]

\* the analytics of one row of MachineTimeline
MachineTimelineAnalytics(machineData, shortDowntime, shortIdle) ==
    LET activeSegments == SelectSeq(machineData,
                              LAMBDA segment : segment.segmentType # ""
                                                   /\ segment.segmentType # "select")
        hasSelectSegments == \E i \in 1..Len(machineData) :
                                 machineData[i].segmentType = "select"
    IN  IF Len(activeSegments) > 0 /\ ~hasSelectSegments
        THEN calculateDowntimeAnalytics(activeSegments, shortDowntime, shortIdle)
        ELSE [unplannedDowntime |-> <<"0", "0", ":", "0", "0", ":", "0", "0">>,
              plannedDeviated   |-> <<"0", "0", ":", "0", "0", ":", "0", "0">>]

----------------------------------------------------------------------------
(* Specification of the machine timeline: one machine's segments are drawn   *)
(* and its row is rendered                                                   *)

MachineDataTimes ==
    { <<<<8, 0, 0>>, <<9, 30, 0>>>>, <<<<0, 0, 7>>, <<0, 4, 7>>>>,
      <<<<10, 0, 0>>, <<10, 0, 30>>>>, <<<<23, 0, 0>>, <<1, 0, 0>>>> }

MachineDataSegments ==
    { [date |-> 1, startTime |-> p[1], endTime |-> p[2],
       machineName |-> <<"M", "1">>, segmentType |-> type] :
          p \in MachineDataTimes, type \in SegmentTypes }

MachineTimelineInit ==
    /\ sCall = "none"
    /\ sArgs \in SeqsUpTo(MachineDataSegments, MaxMachineData)
    /\ sResult = 0
    /\ TimeIdle
    /\ ClientIdle
    /\ ApiIdle

RenderMachineTimeline ==
    /\ sCall = "none"
    /\ sCall' = "MachineTimeline"
    /\ \E shortDowntime \in BOOLEAN, shortIdle \in BOOLEAN :
           sResult' = MachineTimelineAnalytics(sArgs, shortDowntime, shortIdle)
    /\ UNCHANGED <<sArgs, tvars, cvars, avars>>

MachineTimelineNext == RenderMachineTimeline

SpecMachineTimeline == MachineTimelineInit /\ [][MachineTimelineNext]_vars

----------------------------------------------------------------------------
(* Claim about the downtime analytics (checked under SpecMachineTimeline) *)

\* a number of seconds written as HH:MM:SS
ClockOfSeconds(seconds) ==
    padStart2(toString(seconds \div 3600)) \o <<":">>
        \o padStart2(toString((seconds \div 60) % 60)) \o <<":">>
        \o padStart2(toString(seconds % 60))

\* C27: the unplanned-downtime and planned-deviated totals shown for a machine
\* are the sums of the durations of its downtime and of its idle segments,
\* whatever select-typed segments the machine also has.
C27_SelectLeavesTotals ==
    sCall = "MachineTimeline" =>
        /\ sResult.unplannedDowntime =
               ClockOfSeconds(SumDurationsOfType(sArgs, "downtime"))
        /\ sResult.plannedDeviated =
               ClockOfSeconds(SumDurationsOfType(sArgs, "idle"))

----------------------------------------------------------------------------
(* The useDebounce hook (leading option off) in a host component that        *)
(* re-renders it with a value and an onChange function. Time advances in     *)
(* ticks and a timer fires when its delay has run out. sArgs holds the props *)
(* of the latest render, sResult the hook's state, refs and pending timer,   *)
(* the calls made to onChange, and the ticks since the value last changed.   *)

\* the delay, in ticks
Delay == 2

\* the most changes of the value in one behaviour
MaxChanges == 3

DebounceValues == {"a", "b"}

\* the function objects the host passes as onChange
OnChangeFns == {1, 2}

\* timer.current when no timeout is pending
NoTimer == [pending |-> FALSE, value |-> "a", onChange |-> 1, remaining |-> 0]

\* the effect of lines 24-59 run after a render whose dependencies changed:
\* first the cleanup the previous run returned, then the body
useEffectRun(props, hook) ==
    LET cleaned == IF hook.cleanup THEN [hook EXCEPT !.timer = NoTimer] ELSE hook
    IN  IF props.value = cleaned.previousValue
        THEN [cleaned EXCEPT !.cleanup = FALSE]
        ELSE [cleaned EXCEPT
                 !.previousValue = props.value,
                 !.timer = [pending |-> TRUE, value |-> props.value,
                            onChange |-> props.onChange, remaining |-> Delay],
                 !.cleanup = TRUE]

\* the first render: useState(value), useRef(value), useRef(null), and the
\* effect's first run, which returns at line 27
DebounceInit ==
    /\ sCall = "useDebounce"
    /\ sArgs = [value |-> "a", onChange |-> 1]
    /\ sResult = [debouncedValue |-> "a", previousValue |-> "a", timer |-> NoTimer,
                  cleanup |-> FALSE, calls |-> <<>>, quiet |-> Delay + 1,
                  changes |-> 0]
    /\ TimeIdle
    /\ ClientIdle
    /\ ApiIdle

\* the host renders again with a new value (and any onChange)
ChangeValue ==
    /\ sResult.changes < MaxChanges
    /\ \E value \in DebounceValues \ {sArgs.value}, fn \in OnChangeFns :
           LET props == [value |-> value, onChange |-> fn]
           IN  /\ sArgs' = props
               /\ sResult' = [useEffectRun(props, sResult) EXCEPT
                                 !.quiet = 0, !.changes = @ + 1]
    /\ UNCHANGED <<sCall, tvars, cvars, avars>>

\* the host renders again with the same value and a new onChange function
RerenderWithNewOnChange ==
    /\ \E fn \in OnChangeFns \ {sArgs.onChange} :
           LET props == [sArgs EXCEPT !.onChange = fn]
           IN  /\ sArgs' = props
               /\ sResult' = useEffectRun(props, sResult)
    /\ UNCHANGED <<sCall, tvars, cvars, avars>>

\* one tick passes; a timeout that is due fires first
Tick ==
    /\ ~(sResult.timer.pending /\ sResult.timer.remaining = 0)
    /\ sResult.quiet <= Delay
    /\ sResult' = [sResult EXCEPT
                      !.quiet = @ + 1,
                      !.timer = IF @.pending
                                THEN [@ EXCEPT !.remaining = @ - 1] ELSE @]
    /\ UNCHANGED <<sCall, sArgs, tvars, cvars, avars>>

\* the setTimeout callback of lines 47-51; the render that setDebouncedValue
\* causes changes no dependency, so the effect does not run again
TimerFires ==
    /\ sResult.timer.pending
    /\ sResult.timer.remaining = 0
    /\ sResult' = [sResult EXCEPT
                      !.debouncedValue = sResult.timer.value,
                      !.calls = Append(@, [onChange |-> sResult.timer.onChange,
                                           value |-> sResult.timer.value,
                                           latest |-> sArgs.value,
                                           quiet |-> sResult.quiet]),
                      !.timer = NoTimer]
    /\ UNCHANGED <<sCall, sArgs, tvars, cvars, avars>>

DebounceNext ==
    \/ ChangeValue
    \/ RerenderWithNewOnChange
    \/ Tick
    \/ TimerFires

SpecDebounce == DebounceInit /\ [][DebounceNext]_vars

----------------------------------------------------------------------------
(* Claim about useDebounce (checked under SpecDebounce) *)

\* C28: after the value changes, the debounced value keeps its previous value
\* until the delay has elapsed with no further change, and then becomes the
\* latest value with onChange called once with that value; values changed
\* again within the delay are never emitted; under every interleaving of
\* value changes, timer expiry and re-renders, also re-renders that pass a
\* new onChange function.
C28_DebouncedAfterQuietDelay ==
    sCall = "useDebounce" =>
        /\ \A k \in 1..Len(sResult.calls) :
               /\ sResult.calls[k].value = sResult.calls[k].latest
               /\ sResult.calls[k].quiet = Delay
        /\ Len(sResult.calls) <= sResult.changes
        /\ sResult.debouncedValue =
               (IF sResult.calls = <<>> THEN "a"
                ELSE sResult.calls[Len(sResult.calls)].value)
        /\ sResult.quiet > Delay =>
               /\ sResult.debouncedValue = sArgs.value
               /\ sResult.changes > 0 =>
                      /\ sResult.calls # <<>>
                      /\ sResult.calls[Len(sResult.calls)].value = sArgs.value

----------------------------------------------------------------------------
(* The timeline bar of one machine (TimelineBar and the projection helpers   *)
(* of client utils/timeUtils)                                                *)

\* (part / whole) * 100 for a number of minutes `part` held in sixtieths
Percent(part, totalMinutes) == [part |-> part.seconds, whole |-> totalMinutes * 60]

calculateSegmentWidth(startTime, endTime, totalMinutes) ==
    LET durationInMinutes == calculateDurationInMinutes(startTime, endTime)
    IN  Percent(durationInMinutes, totalMinutes)

calculateSegmentPosition(startTime, dayStartTime, totalMinutes) ==
    LET offsetMinutes == calculateDurationInMinutes(dayStartTime, startTime)
    IN  Percent(offsetMinutes, totalMinutes)

\* "HH:mm:ss" strings compared with <: for well-formed times, the order of
\* the seconds since midnight
StartsBefore(a, b) ==
    a.startTime[1] * 3600 + a.startTime[2] * 60 + a.startTime[3]
        < b.startTime[1] * 3600 + b.startTime[2] * 60 + b.startTime[3]

RECURSIVE SortByStartTime(_)
\* [...segments].sort(by startTime): a stable sort
SortByStartTime(segs) ==
    IF Len(segs) <= 1 THEN segs
    ELSE LET sortedHead == SortByStartTime(SubSeq(segs, 1, Len(segs) - 1))
             last == segs[Len(segs)]
             keep == { i \in 1..Len(sortedHead) : ~StartsBefore(last, sortedHead[i]) }
             at   == Cardinality(keep)
         IN  SubSeq(sortedHead, 1, at) \o <<last>>
                 \o SubSeq(sortedHead, at + 1, Len(sortedHead))

getSegmentColor(segmentType) ==
    IF segmentType \in {"uptime", "Uptime"} THEN "bg-green-500"
    ELSE IF segmentType \in {"idle", "Idle"} THEN "bg-yellow-400"
    ELSE IF segmentType \in {"downtime", "Downtime"} THEN "bg-red-500"
    ELSE "bg-gray-300"

\* the bars TimelineBar renders, in order
TimelineBar(segs) ==
    LET sortedSegments == SortByStartTime(segs)
        totalMinutes == 24 * 60
    IN  [index \in 1..Len(sortedSegments) |->
            [segment |-> sortedSegments[index],
             className |-> getSegmentColor(sortedSegments[index].segmentType),
             width |-> calculateSegmentWidth(sortedSegments[index].startTime,
                                             sortedSegments[index].endTime,
                                             totalMinutes),
             left |-> calculateSegmentPosition(sortedSegments[index].startTime,
                                               <<0, 0, 0>>, totalMinutes)]]

----------------------------------------------------------------------------
(* Specification of the timeline bar: one machine's segments are drawn and   *)
(* the bar is rendered                                                       *)

BarTimes ==
    { <<<<0, 0, 0>>, <<23, 59, 59>>>>, <<<<8, 0, 0>>, <<8, 0, 30>>>>,
      <<<<8, 0, 30>>, <<12, 0, 0>>>>, <<<<23, 0, 0>>, <<1, 0, 0>>>>,
      <<<<12, 0, 0>>, <<0, 0, 0>>>>, <<<<9, 0, 0>>, <<9, 0, 0>>>> }

BarSegments ==
    { [date |-> 1, startTime |-> p[1], endTime |-> p[2],
       machineName |-> <<"M", "1">>, segmentType |-> type] :
          p \in BarTimes, type \in {"uptime", "select"} }

TimelineBarInit ==
    /\ sCall = "none"
    /\ sArgs \in SeqsUpTo(BarSegments, MaxMachineData)
    /\ sResult = 0
    /\ TimeIdle
    /\ ClientIdle
    /\ ApiIdle

RenderTimelineBar ==
    /\ sCall = "none"
    /\ sCall' = "TimelineBar"
    /\ sResult' = TimelineBar(sArgs)
    /\ UNCHANGED <<sArgs, tvars, cvars, avars>>

TimelineBarNext == RenderTimelineBar

SpecTimelineBar == TimelineBarInit /\ [][TimelineBarNext]_vars

----------------------------------------------------------------------------
(* Claims about the projection (checked under SpecTimelineBar) *)

SecondsOfDay(time) == time[1] * 3600 + time[2] * 60 + time[3]

\* the seconds from a segment's start to its end, the end on the next day
\* when it is earlier than the start
SecondsOfSegment(seg) ==
    IF SecondsOfDay(seg.endTime) < SecondsOfDay(seg.startTime)
    THEN SecondsOfDay(seg.endTime) + SecondsPerDay - SecondsOfDay(seg.startTime)
    ELSE SecondsOfDay(seg.endTime) - SecondsOfDay(seg.startTime)

\* the bar shows the segment at the fractions of the 24-hour axis that the
\* projection formulas give
ProjectedAsSpecified(bar) ==
    /\ bar.left = [part |-> SecondsOfDay(bar.segment.startTime), whole |-> SecondsPerDay]
    /\ bar.width = [part |-> SecondsOfSegment(bar.segment), whole |-> SecondsPerDay]

NotNegative(bar) == bar.left.part >= 0 /\ bar.width.part >= 0

\* leftPercent + widthPercent <= 100
EndsWithinAxis(bar) == bar.left.part + bar.width.part <= bar.left.whole

\* the bars are the segments, each once
BarsOfSegments ==
    /\ Len(sResult) = Len(sArgs)
    /\ \A seg \in BarSegments :
           Cardinality({ k \in 1..Len(sResult) : sResult[k].segment = seg })
               = Cardinality({ i \in 1..Len(sArgs) : sArgs[i] = seg })

\* C29 as stated: every segment is projected independently of the others to
\* leftPercent = (minutes from 00:00:00 to startTime) / 1440 * 100 and
\* widthPercent = duration / 1440 * 100, and the bar lies within the axis:
\* leftPercent >= 0, widthPercent >= 0, leftPercent + widthPercent <= 100.
C29_BarWithinAxis ==
    sCall = "TimelineBar" =>
        /\ BarsOfSegments
        /\ \A k \in 1..Len(sResult) :
               /\ ProjectedAsSpecified(sResult[k])
               /\ NotNegative(sResult[k])
               /\ EndsWithinAxis(sResult[k])

\* C29 amended: the projection is as stated and never negative, and the bar
\* ends within the axis when the segment does not cross midnight (its
\* endTime is not earlier than its startTime).
C29_BarWithinAxisUnlessCrossing ==
    sCall = "TimelineBar" =>
        /\ BarsOfSegments
        /\ \A k \in 1..Len(sResult) :
               /\ ProjectedAsSpecified(sResult[k])
               /\ NotNegative(sResult[k])
               /\ SecondsOfDay(sResult[k].segment.endTime)
                      >= SecondsOfDay(sResult[k].segment.startTime)
                  => EndsWithinAxis(sResult[k])

\* two segments given in reverse order of start, the later with seconds
C29_Witness ==
    /\ sCall = "TimelineBar"
    /\ Len(sArgs) = 2
    /\ sArgs[1].startTime = <<8, 0, 30>>
    /\ sArgs[2].startTime = <<0, 0, 0>>
    /\ sResult[2].segment = sArgs[1]
    /\ sResult[2].left.part = 28830
    /\ sResult[2].width.part = 14370

----------------------------------------------------------------------------
(* The segment form opened at some time of day: its default values, merged   *)
(* with the machine name and segment type given, are validated               *)

\* Date.prototype.toTimeString().substring(0, 8) of the instant `seconds`
\* after local midnight: the local time of day, "HH:MM:SS"
formatTimeString(seconds) ==
    LET ofDay == seconds % SecondsPerDay
    IN  <<ofDay \div 3600, (ofDay \div 60) % 60, ofDay % 60>>

\* defaultValues of SegmentForm with initialValues spread over them; `now` is
\* the local time of day in seconds and utcDay the day toISOString() names
defaultValues(now, utcDay, initialValues) ==
    [id |-> 0,
     date |-> utcDay,
     startTime |-> formatTimeString(now),
     endTime |-> formatTimeString(now + 60 * 60),
     machineName |-> initialValues.machineName,
     segmentType |-> initialValues.segmentType]

\* the times of day the form is opened at: every half hour, and the seconds
\* around the hours
OpeningTimes ==
    { h * 3600 + m * 60 + s : h \in 0..23, m \in {0, 30, 59}, s \in {0, 59} }

DefaultsInit ==
    /\ rows = <<>>
    /\ cCall = "none"
    /\ cArgs \in [now : OpeningTimes, today : Todays, utcDay : {1, 2, 3},
                  initialValues : [machineName : MachineNames,
                                   segmentType : {"Uptime"}]]
    /\ cResult = FALSE
    /\ TimeIdle
    /\ ApiIdle
    /\ StatsIdle

\* the form's values are validated against no existing segments
ValidateDefaults ==
    /\ cCall = "none"
    /\ cCall' = "SegmentForm"
    /\ cResult' = validateSegmentForm(
                      defaultValues(cArgs.now, cArgs.utcDay, cArgs.initialValues),
                      <<>>, cArgs.today)
    /\ UNCHANGED <<rows, cArgs, tvars, avars, svars>>

DefaultsNext == ValidateDefaults

SpecDefaults == DefaultsInit /\ [][DefaultsNext]_vars

----------------------------------------------------------------------------
(* Claim about the form's defaults (checked under SpecDefaults) *)

\* C30: at every time of day, the form's defaults (date today, startTime the
\* current time, endTime the current time plus one hour), completed with a
\* valid machineName and segmentType and with no existing segments, pass the
\* end-after-start check of validateSegmentForm: no error on endTime.
C30_DefaultsPassEndAfterStart ==
    cCall = "SegmentForm" => cResult.errors.endTime = ""

====
